---------------------------- MODULE Spec2Model ----------------------------
(***************************************************************************)
(* Verification model of afblib: the shared-memory communication domain   *)
(* (shared_domain.c), the TCP multiplexor (multiplexor.c) with the        *)
(* regex-framed session layer (mpx_session.c) and the UDP session server  *)
(* (udp_session.c).                                                       *)
(***************************************************************************)
EXTENDS Integers, Sequences, FiniteSets, TLC

(***************************************************************************)
(* Bounds of the model.                                                    *)
(***************************************************************************)
BarrierProcs == 3   \* participants of the barrier scenarios
MaxRounds    == 2   \* sd_barrier calls per participant
RingProcs    == 3   \* participants of the mailbox scenarios
BufSize      == 2   \* ring capacity B passed to sd_setup
MaxMsgLen    == 3   \* longest message passed to sd_write / sd_read
MaxWrites    == 2   \* sd_write calls per sender
MaxReads     == 2   \* sd_read calls of the recipient
ShutProcs    == 2   \* participants of the shutdown scenarios
ShutCallers  == 3   \* callers beside the creator in the shutdown scenarios
MaxConns     == 2   \* connections accept() hands to the multiplexor
MaxBufs      == 2   \* buffers passed to write_to_link
MaxSegLen    == 2   \* longest buffer passed to write_to_link
MaxInputs    == 2   \* read() calls that deliver data
MaxChunk     == 2   \* most bytes one read() delivers to a session
MaxSessions  == 1   \* connections accept() hands to the session layer
MaxLinks     == 2   \* first packets of new peers the UDP service receives
MaxPackets   == 3   \* buffers passed to write_to_udp_link
MaxDatagrams == 2   \* datagrams read from connected UDP links
MaxRetries   == 2   \* largest max_retries passed to run_udp_service
MxProcs      == 2   \* processes that share one shared_mutex
MaxLocks     == 2   \* shared_mutex_lock calls per process
MaxWaits     == 1   \* shared_cv_wait calls per process
MaxBurst     == 4   \* bytes of one input burst of the scanning session
MaxFree      == 2   \* bytes allocated behind sa.len of a sliding buffer
MaxMinspace  == 4   \* minspace asked of sliding_buffer_ready
MaxCalls     == 5   \* request handler calls looked at in one input handler call
MaxSetupProcs == 4  \* nofprocesses passed to sd_setup_with_extra_space

NoOwner == -1       \* an unlocked mutex

VARIABLES
    sd,           \* struct shared_domain: the handle of every caller (a thread of a participant)
    header,       \* struct shared_mem_header
    buffer,       \* struct shared_mem_buffer, one per rank, with its ring bytes
    pc,           \* position of every caller inside its current call
    local,        \* the local variables of the current call of every participant
    calls,        \* calls made so far by every participant, per operation
    limit,        \* calls every participant is going to make, per operation
    entered,      \* history: sd_barrier calls in which the participant updated sync_count
    ret,          \* history: the calls every participant has returned from, with their results
    stream,       \* history: the bytes sd_read delivered at every rank, in order
    completed,    \* history: the messages for which sd_write returned true
    atShutdown,   \* history: where every participant was when sd_shutdown set the flag
    mpx,          \* struct multiplexor of run_multiplexor, with the position of its loop
    conn,         \* struct connection, one per accepted connection
    session,      \* struct session of the session layer, one per connection
    obs,          \* history: what the multiplexor did to descriptors, handlers and buffers
    udp,          \* struct udp_multiplexor of run_udp_service, with the position of its loop
    ulink,        \* struct udp_connection, one per session
    uobs,         \* history: what the UDP service did to descriptors, handlers and packets
    sm,           \* shared_mutex: a mutex in shared memory with its signal sets
    thread,       \* the threads that use sm: position, signal mask, local prev_sigset
    scan,         \* one input burst of a session whose request handler scans the captures
    sbuf,         \* a sliding_buffer and the call of sliding_buffer_ready made for it
    dom           \* one call of sd_setup_with_extra_space and the objects it creates

sdvars == <<sd, header, buffer, pc, local, calls, limit, entered, ret,
            stream, completed, atShutdown>>

tcpvars == <<mpx, conn, session, obs>>

udpvars == <<udp, ulink, uobs>>

mxvars == <<sm, thread>>

libvars == <<mxvars, scan, sbuf, dom>>

netvars == <<tcpvars, udpvars, libvars>>

vars == <<sdvars, netvars>>


Ranks == 0 .. (header.nofprocesses - 1)

Callers == DOMAIN sd

NoByte == <<>>      \* a ring byte nobody has written yet

NoLocal == [recipient |-> 0, buf |-> <<>>, nbytes |-> 0, done |-> 0]

(***************************************************************************)
(* shared_cv: the waiters of a condition variable are a set of ranks.      *)
(* pthread_cond_signal takes one waiter out (any of them), and             *)
(* pthread_cond_broadcast all of them; a waiter taken out still has to     *)
(* re-acquire the mutex before shared_cv_wait returns.                     *)
(***************************************************************************)
(* a signal that wakes nobody *)
shared_cv_notify_nobody(cv) == {cv}

shared_cv_notify_one(cv) == IF cv = {} THEN {cv} ELSE {cv \ {w} : w \in cv}

shared_cv_notify_all(cv) == {}

init_header(nofprocesses, bufsize) ==
    [nofprocesses |-> nofprocesses, bufsize |-> bufsize,
     mutex |-> NoOwner, wait_for_barrier |-> {}, sync_count |-> 0,
     terminating |-> FALSE]

init_buffer(bufsize) ==
    [mutex |-> NoOwner,
     ready_for_reading |-> {}, ready_for_writing |-> {},
     ready_for_writing_alone |-> {}, ready_for_reading_alone |-> {},
     writing |-> FALSE, reading |-> FALSE,
     filled |-> 0, read_index |-> 0, write_index |-> 0,
     ring |-> [i \in 0 .. (bufsize - 1) |-> NoByte]]

(***************************************************************************)
(* sd_setup / sd_connect: the state after the creator (rank 0) has set the *)
(* domain up for n participants and every caller has its handle; rank[c]   *)
(* is the rank of caller c (the threads of one participant share a rank),  *)
(* and lim[c] the calls c is going to make.                                *)
(***************************************************************************)
sd_setup(n, rank, lim) ==
    /\ sd = [c \in DOMAIN rank |-> [creator |-> (rank[c] = 0), rank |-> rank[c],
                                    nofprocesses |-> n, bufsize |-> BufSize]]
    /\ header = init_header(n, BufSize)
    /\ buffer = [r \in 0 .. (n - 1) |-> init_buffer(BufSize)]
    /\ pc = [c \in DOMAIN rank |-> "idle"]
    /\ local = [c \in DOMAIN rank |-> NoLocal]
    /\ calls = [c \in DOMAIN rank |-> [barrier |-> 0, write |-> 0, read |-> 0, shutdown |-> 0]]
    /\ limit = lim
    /\ entered = [c \in DOMAIN rank |-> 0]
    /\ ret = [c \in DOMAIN rank |-> <<>>]
    /\ stream = [r \in 0 .. (n - 1) |-> <<>>]
    /\ completed = {}
    /\ atShutdown = [c \in DOMAIN rank |-> "none"]

(* a call of p returns val: the history of a call that sd_shutdown found in progress *)
Returned(p, val) ==
    atShutdown' = [atShutdown EXCEPT ![p] =
                      IF @ = "blocked" THEN (IF val THEN "true" ELSE "false")
                      ELSE IF @ = "active" THEN "returned" ELSE @]

Blocked(p) == pc[p] \in {"b_wait", "w_wait_alone", "w_wait_space",
                          "r_wait_alone", "r_wait_data"}

(* a participant that never sees the flag of the shared header set *)
sd_terminating_unseen(p) == FALSE

(* lines 643-651: sd_terminating reads the flag of the shared header *)
sd_terminating(p) == header.terminating

(***************************************************************************)
(* sd_barrier                                                              *)
(***************************************************************************)
BarrierReturn(p, val) ==
    /\ pc' = [pc EXCEPT ![p] = "idle"]
    /\ ret' = [ret EXCEPT ![p] = Append(@, [op |-> "barrier", val |-> val])]
    /\ Returned(p, val)

(* line 481: the test of the flag before the mutex is taken *)
BarrierCall(p) ==
    /\ pc[p] = "idle"
    /\ calls[p].barrier < limit[p].barrier
    /\ calls' = [calls EXCEPT ![p].barrier = @ + 1]
    /\ IF sd_terminating(p)
       THEN BarrierReturn(p, FALSE)
       ELSE /\ pc' = [pc EXCEPT ![p] = "b_lock"]
            /\ UNCHANGED <<ret, atShutdown>>
    /\ UNCHANGED <<sd, header, buffer, local, limit, entered, stream, completed>>

(* line 483: shared_mutex_lock(&hp->mutex) *)
BarrierLock(p) ==
    /\ pc[p] = "b_lock"
    /\ header.mutex = NoOwner
    /\ header' = [header EXCEPT !.mutex = p]
    /\ pc' = [pc EXCEPT ![p] = "b_check"]
    /\ UNCHANGED <<sd, buffer, local, calls, limit, entered, ret, stream,
                   completed, atShutdown>>

(* lines 485-488: the test of the flag under the mutex *)
BarrierCheck(p) ==
    /\ pc[p] = "b_check"
    /\ IF sd_terminating(p)
       THEN /\ header' = [header EXCEPT !.mutex = NoOwner]
            /\ BarrierReturn(p, FALSE)
       ELSE /\ pc' = [pc EXCEPT ![p] = "b_sync"]
            /\ UNCHANGED <<header, ret, atShutdown>>
    /\ UNCHANGED <<sd, buffer, local, calls, limit, entered, stream, completed>>

(* a barrier whose first entrant waits for one participant too few *)
barrier_count_short(sync_count, n) == IF sync_count = 0 THEN n - 2 ELSE sync_count - 1

(* lines 489-493: the first entrant sets sync_count, the others count it down *)
barrier_count(sync_count, n) == IF sync_count = 0 THEN n - 1 ELSE sync_count - 1

(* line 497: the condition under which a participant (still) waits *)
barrier_waits(sync_count) == sync_count > 0

(* lines 489-502: count, then notify all and return, or start to wait *)
BarrierSync(p) ==
    /\ pc[p] = "b_sync"
    /\ entered' = [entered EXCEPT ![p] = @ + 1]
    /\ LET count == barrier_count(header.sync_count, sd[p].nofprocesses) IN
       IF count = 0
       THEN /\ header' = [header EXCEPT !.sync_count = count,
                              !.wait_for_barrier = shared_cv_notify_all(@),
                              !.mutex = NoOwner]
            /\ BarrierReturn(p, TRUE)
       ELSE IF barrier_waits(count)
       THEN /\ header' = [header EXCEPT !.sync_count = count,
                              !.wait_for_barrier = @ \cup {p},
                              !.mutex = NoOwner]
            /\ pc' = [pc EXCEPT ![p] = "b_wait"]
            /\ UNCHANGED <<ret, atShutdown>>
       ELSE /\ header' = [header EXCEPT !.sync_count = count, !.mutex = NoOwner]
            /\ BarrierReturn(p, TRUE)   \* the loop is not entered: ok is still true
    /\ UNCHANGED <<sd, buffer, local, calls, limit, stream, completed>>

(* line 498: shared_cv_wait returns once the waiter has been taken out of the
   condition variable and has the mutex again *)
BarrierWake(p) ==
    /\ pc[p] = "b_wait"
    /\ p \notin header.wait_for_barrier
    /\ header.mutex = NoOwner
    /\ header' = [header EXCEPT !.mutex = p]
    /\ pc' = [pc EXCEPT ![p] = "b_woken"]
    /\ UNCHANGED <<sd, buffer, local, calls, limit, entered, ret, stream,
                   completed, atShutdown>>

(* lines 497-502: ok = ... && !sd_terminating(sd), then the loop condition *)
BarrierRetest(p) ==
    /\ pc[p] = "b_woken"
    /\ LET ok == ~sd_terminating(p) IN
       IF ok /\ barrier_waits(header.sync_count)
       THEN /\ header' = [header EXCEPT !.wait_for_barrier = @ \cup {p},
                              !.mutex = NoOwner]
            /\ pc' = [pc EXCEPT ![p] = "b_wait"]
            /\ UNCHANGED <<ret, atShutdown>>
       ELSE /\ header' = [header EXCEPT !.mutex = NoOwner]
            /\ BarrierReturn(p, ok)
    /\ UNCHANGED <<sd, buffer, local, calls, limit, entered, stream, completed>>



(***************************************************************************)
(* sd_write                                                                *)
(***************************************************************************)
Min(a, b) == IF a < b THEN a ELSE b

(* the k-th message of sender p: n bytes that name their message and position *)
Message(p, k, n) == [i \in 1 .. n |-> <<p, k, i>>]

WriteReturn(p, val) ==
    /\ pc' = [pc EXCEPT ![p] = "idle"]
    /\ ret' = [ret EXCEPT ![p] = Append(@, [op |-> "write", val |-> val])]
    /\ completed' = IF val /\ pc[p] = "w_loop"
                    THEN completed \cup {<<p, calls[p].write>>} ELSE completed
    /\ Returned(p, val)

(* lines 507-509: the tests before the mutex is taken *)
WriteCall(p) ==
    /\ pc[p] = "idle"
    /\ calls[p].write < limit[p].write
    /\ calls' = [calls EXCEPT ![p].write = @ + 1]
    /\ \E r \in limit[p].to, n \in limit[p].sizes :
          /\ local' = [local EXCEPT ![p] = [recipient |-> r, nbytes |-> n, done |-> 0,
                                            buf |-> Message(p, calls'[p].write, n)]]
          /\ IF n = 0 THEN WriteReturn(p, TRUE)
             ELSE IF r >= sd[p].nofprocesses THEN WriteReturn(p, FALSE)
             ELSE IF sd_terminating(p) THEN WriteReturn(p, FALSE)
             ELSE /\ pc' = [pc EXCEPT ![p] = "w_lock"]
                  /\ UNCHANGED <<ret, completed, atShutdown>>
    /\ UNCHANGED <<sd, header, buffer, limit, entered, stream>>

(* line 512: shared_mutex_lock(&buffer->mutex) *)
WriteLock(p) ==
    /\ pc[p] = "w_lock"
    /\ buffer[local[p].recipient].mutex = NoOwner
    /\ buffer' = [buffer EXCEPT ![local[p].recipient].mutex = p]
    /\ pc' = [pc EXCEPT ![p] = "w_check"]
    /\ UNCHANGED <<sd, header, local, calls, limit, entered, ret, stream, completed,
                   atShutdown>>

(* lines 514-517: the test of the flag under the mutex *)
WriteCheck(p) ==
    /\ pc[p] = "w_check"
    /\ IF sd_terminating(p)
       THEN /\ buffer' = [buffer EXCEPT ![local[p].recipient].mutex = NoOwner]
            /\ WriteReturn(p, FALSE)
       ELSE /\ pc' = [pc EXCEPT ![p] = "w_token"]
            /\ UNCHANGED <<buffer, ret, completed, atShutdown>>
    /\ UNCHANGED <<sd, header, local, calls, limit, entered, stream>>

(* a sender that does not look at the writing token *)
write_token_ignored(b) == FALSE

(* line 518: another sender is writing to this buffer *)
write_token_taken(b) == b.writing

(* lines 518-526: wait while another sender is writing, then take the token *)
WriteToken(p) ==
    /\ pc[p] = "w_token"
    /\ LET r == local[p].recipient IN
       IF write_token_taken(buffer[r])
       THEN /\ buffer' = [buffer EXCEPT ![r].ready_for_writing_alone = @ \cup {p},
                                        ![r].mutex = NoOwner]
            /\ pc' = [pc EXCEPT ![p] = "w_wait_alone"]
       ELSE /\ buffer' = [buffer EXCEPT ![r].writing = TRUE]
            /\ pc' = [pc EXCEPT ![p] = "w_loop"]
    /\ UNCHANGED <<sd, header, local, calls, limit, entered, ret, stream, completed,
                   atShutdown>>

(* lines 537-543: the bytes one iteration copies *)
write_count(left, b, bufsize) ==
    Min(Min(left, bufsize - b.filled), bufsize - b.write_index)

(* a writer that lets write_index run past the end of the ring *)
write_copy_unwrapped(b, src, written, count, bufsize) ==
    [b EXCEPT !.ring = [i \in DOMAIN b.ring |->
                          IF i >= b.write_index /\ i < b.write_index + count
                          THEN src[written + 1 + (i - b.write_index)] ELSE b.ring[i]],
              !.write_index = b.write_index + count,
              !.filled = b.filled + count]

(* lines 544-547: memcpy into the ring and the new indices *)
write_copy(b, src, written, count, bufsize) ==
    [b EXCEPT !.ring = [i \in DOMAIN b.ring |->
                          IF i >= b.write_index /\ i < b.write_index + count
                          THEN src[written + 1 + (i - b.write_index)] ELSE b.ring[i]],
              !.write_index = (b.write_index + count) % bufsize,
              !.filled = b.filled + count]

(* lines 531-555: one iteration of the copy loop: wait for space, or copy and
   notify the reader; after the last byte give the token back and return *)
WriteLoop(p) ==
    /\ pc[p] = "w_loop"
    /\ LET r == local[p].recipient
           b == buffer[r]
           count == write_count(local[p].nbytes - local[p].done, b, sd[p].bufsize)
           written == local[p].done + count
       IN
       IF b.filled = sd[p].bufsize
       THEN /\ buffer' = [buffer EXCEPT ![r].ready_for_writing = @ \cup {p},
                                        ![r].mutex = NoOwner]
            /\ pc' = [pc EXCEPT ![p] = "w_wait_space"]
            /\ UNCHANGED <<local, ret, completed, atShutdown>>
       ELSE /\ local' = [local EXCEPT ![p].done = written]
            /\ \E rfr \in shared_cv_notify_one(b.ready_for_reading) :
                 LET copied == [write_copy(b, local[p].buf, local[p].done, count, sd[p].bufsize)
                                   EXCEPT !.ready_for_reading = rfr]
                 IN
                 IF written < local[p].nbytes
                 THEN /\ buffer' = [buffer EXCEPT ![r] = copied]
                      /\ UNCHANGED <<pc, ret, completed, atShutdown>>
                 ELSE /\ \E rfwa \in shared_cv_notify_one(b.ready_for_writing_alone) :
                           buffer' = [buffer EXCEPT ![r] =
                                         [copied EXCEPT !.writing = FALSE,
                                                        !.ready_for_writing_alone = rfwa,
                                                        !.mutex = NoOwner]]
                      /\ WriteReturn(p, TRUE)
    /\ UNCHANGED <<sd, header, calls, limit, entered, stream>>

(* lines 521, 533: shared_cv_wait returns once the waiter has been taken out of
   the condition variable and has the mutex again *)
WriteWake(p) ==
    /\ pc[p] \in {"w_wait_alone", "w_wait_space"}
    /\ LET r == local[p].recipient IN
       /\ p \notin (buffer[r].ready_for_writing_alone \cup buffer[r].ready_for_writing)
       /\ buffer[r].mutex = NoOwner
       /\ buffer' = [buffer EXCEPT ![r].mutex = p]
    /\ pc' = [pc EXCEPT ![p] = IF @ = "w_wait_alone" THEN "w_woken_alone" ELSE "w_woken_space"]
    /\ UNCHANGED <<sd, header, local, calls, limit, entered, ret, stream, completed,
                   atShutdown>>

(* lines 521-523, 533-535: ok = ... && !sd_terminating(sd); if (!ok) goto unlock *)
WriteRetest(p) ==
    /\ pc[p] \in {"w_woken_alone", "w_woken_space"}
    /\ IF sd_terminating(p)
       THEN /\ buffer' = [buffer EXCEPT ![local[p].recipient].mutex = NoOwner]
            /\ WriteReturn(p, FALSE)
       ELSE /\ pc' = [pc EXCEPT ![p] = IF @ = "w_woken_alone" THEN "w_token" ELSE "w_loop"]
            /\ UNCHANGED <<buffer, ret, completed, atShutdown>>
    /\ UNCHANGED <<sd, header, local, calls, limit, entered, stream>>



(***************************************************************************)
(* sd_read                                                                 *)
(***************************************************************************)
ReadReturn(p, val) ==
    /\ pc' = [pc EXCEPT ![p] = "idle"]
    /\ ret' = [ret EXCEPT ![p] = Append(@, [op |-> "read", val |-> val])]
    /\ Returned(p, val)

(* lines 559-560: the tests before the mutex is taken *)
ReadCall(p) ==
    /\ pc[p] = "idle"
    /\ calls[p].read < limit[p].read
    /\ calls' = [calls EXCEPT ![p].read = @ + 1]
    /\ \E n \in limit[p].sizes :
          /\ local' = [local EXCEPT ![p] = [recipient |-> sd[p].rank, nbytes |-> n, done |-> 0,
                                            buf |-> <<>>]]
          /\ IF n = 0 THEN ReadReturn(p, TRUE)
             ELSE IF sd_terminating(p) THEN ReadReturn(p, FALSE)
             ELSE /\ pc' = [pc EXCEPT ![p] = "r_lock"]
                  /\ UNCHANGED <<ret, atShutdown>>
    /\ UNCHANGED <<sd, header, buffer, limit, entered, stream, completed>>

(* line 563: shared_mutex_lock(&buffer->mutex) *)
ReadLock(p) ==
    /\ pc[p] = "r_lock"
    /\ buffer[local[p].recipient].mutex = NoOwner
    /\ buffer' = [buffer EXCEPT ![local[p].recipient].mutex = p]
    /\ pc' = [pc EXCEPT ![p] = "r_check"]
    /\ UNCHANGED <<sd, header, local, calls, limit, entered, ret, stream, completed,
                   atShutdown>>

(* lines 565-568: the test of the flag under the mutex *)
ReadCheck(p) ==
    /\ pc[p] = "r_check"
    /\ IF sd_terminating(p)
       THEN /\ buffer' = [buffer EXCEPT ![local[p].recipient].mutex = NoOwner]
            /\ ReadReturn(p, FALSE)
       ELSE /\ pc' = [pc EXCEPT ![p] = "r_token"]
            /\ UNCHANGED <<buffer, ret, atShutdown>>
    /\ UNCHANGED <<sd, header, local, calls, limit, entered, stream, completed>>

(* a reader that does not look at the reading flag *)
read_token_ignored(b) == FALSE

(* line 569: while (buffer->reading) *)
read_token_taken(b) == b.reading

(* lines 569-578: wait while another thread is reading, then take the token *)
ReadToken(p) ==
    /\ pc[p] = "r_token"
    /\ IF read_token_taken(buffer[local[p].recipient])
       THEN /\ buffer' = [buffer EXCEPT ![local[p].recipient].ready_for_reading_alone = @ \cup {p},
                                        ![local[p].recipient].mutex = NoOwner]
            /\ pc' = [pc EXCEPT ![p] = "r_wait_alone"]
       ELSE /\ buffer' = [buffer EXCEPT ![local[p].recipient].reading = TRUE]
            /\ pc' = [pc EXCEPT ![p] = "r_loop"]
    /\ UNCHANGED <<sd, header, local, calls, limit, entered, ret, stream, completed,
                   atShutdown>>

(* lines 589-595: the bytes one iteration copies *)
read_count(left, b, bufsize) ==
    Min(Min(left, b.filled), bufsize - b.read_index)

(* line 596: the bytes memcpy takes out of the ring *)
read_bytes(b, count) == [i \in 1 .. count |-> b.ring[b.read_index + i - 1]]

(* a reader that forgets to advance read_index *)
read_advance_stuck(b, count, bufsize) == [b EXCEPT !.filled = b.filled - count]

(* lines 598-599: the new indices *)
read_advance(b, count, bufsize) ==
    [b EXCEPT !.read_index = (b.read_index + count) % bufsize,
              !.filled = b.filled - count]

(* lines 583-607: one iteration of the copy loop: wait for data, or copy and
   notify the writer; after the last byte give the token back and return *)
ReadLoop(p) ==
    /\ pc[p] = "r_loop"
    /\ LET b == buffer[local[p].recipient]
           count == read_count(local[p].nbytes - local[p].done, b, sd[p].bufsize)
           bytes_read == local[p].done + count
       IN
       IF b.filled = 0
       THEN /\ buffer' = [buffer EXCEPT ![local[p].recipient].ready_for_reading = @ \cup {p},
                                        ![local[p].recipient].mutex = NoOwner]
            /\ pc' = [pc EXCEPT ![p] = "r_wait_data"]
            /\ UNCHANGED <<local, ret, stream, atShutdown>>
       ELSE /\ local' = [local EXCEPT ![p].done = bytes_read,
                                      ![p].buf = @ \o read_bytes(b, count)]
            /\ stream' = [stream EXCEPT ![local[p].recipient] = @ \o read_bytes(b, count)]
            /\ \E rfw \in shared_cv_notify_one(b.ready_for_writing) :
                 LET copied == [read_advance(b, count, sd[p].bufsize)
                                   EXCEPT !.ready_for_writing = rfw]
                 IN
                 IF bytes_read < local[p].nbytes
                 THEN /\ buffer' = [buffer EXCEPT ![local[p].recipient] = copied]
                      /\ UNCHANGED <<pc, ret, atShutdown>>
                 ELSE /\ \E rfra \in shared_cv_notify_one(b.ready_for_reading_alone) :
                           buffer' = [buffer EXCEPT ![local[p].recipient] =
                                         [copied EXCEPT !.reading = FALSE,
                                                        !.ready_for_reading_alone = rfra,
                                                        !.mutex = NoOwner]]
                      /\ ReadReturn(p, TRUE)
    /\ UNCHANGED <<sd, header, calls, limit, entered, completed>>

(* lines 573, 585: shared_cv_wait returns once the waiter has been taken out of
   the condition variable and has the mutex again *)
ReadWake(p) ==
    /\ pc[p] \in {"r_wait_alone", "r_wait_data"}
    /\ p \notin (buffer[local[p].recipient].ready_for_reading_alone \cup buffer[local[p].recipient].ready_for_reading)
    /\ buffer[local[p].recipient].mutex = NoOwner
    /\ buffer' = [buffer EXCEPT ![local[p].recipient].mutex = p]
    /\ pc' = [pc EXCEPT ![p] = IF @ = "r_wait_alone" THEN "r_woken_alone" ELSE "r_woken_data"]
    /\ UNCHANGED <<sd, header, local, calls, limit, entered, ret, stream, completed,
                   atShutdown>>

(* lines 573-575, 585-587: ok = ... && !sd_terminating(sd); if (!ok) goto unlock *)
ReadRetest(p) ==
    /\ pc[p] \in {"r_woken_alone", "r_woken_data"}
    /\ IF sd_terminating(p)
       THEN /\ buffer' = [buffer EXCEPT ![local[p].recipient].mutex = NoOwner]
            /\ ReadReturn(p, FALSE)
       ELSE /\ pc' = [pc EXCEPT ![p] = IF @ = "r_woken_alone" THEN "r_token" ELSE "r_loop"]
            /\ UNCHANGED <<buffer, ret, atShutdown>>
    /\ UNCHANGED <<sd, header, local, calls, limit, entered, stream, completed>>



(***************************************************************************)
(* sd_shutdown                                                             *)
(***************************************************************************)
ShutdownReturn(p, val) ==
    /\ pc' = [pc EXCEPT ![p] = "idle"]
    /\ ret' = [ret EXCEPT ![p] = Append(@, [op |-> "shutdown", val |-> val])]

(* lines 611-620: only the creator (rank 0) may shut down; atomic_exchange sets
   the flag; a second shutdown fails *)
ShutdownCall(p) ==
    /\ pc[p] = "idle"
    /\ calls[p].shutdown < limit[p].shutdown
    /\ calls' = [calls EXCEPT ![p].shutdown = @ + 1]
    /\ IF ~sd[p].creator
       THEN /\ ShutdownReturn(p, FALSE)
            /\ UNCHANGED <<header, atShutdown>>
       ELSE /\ header' = [header EXCEPT !.terminating = TRUE]
            /\ IF header.terminating
               THEN /\ ShutdownReturn(p, FALSE)
                    /\ UNCHANGED atShutdown
               ELSE /\ pc' = [pc EXCEPT ![p] = "s_header"]
                    /\ atShutdown' = [q \in Callers |->
                                         IF Blocked(q) THEN "blocked"
                                         ELSE IF pc[q] # "idle" THEN "active" ELSE "none"]
                    /\ UNCHANGED ret
    /\ UNCHANGED <<sd, buffer, local, limit, entered, stream, completed>>

(* lines 628-630: notify the barrier's condition variable under its mutex *)
ShutdownHeader(p) ==
    /\ pc[p] = "s_header"
    /\ header.mutex = NoOwner
    /\ header' = [header EXCEPT !.wait_for_barrier = shared_cv_notify_all(@)]
    /\ local' = [local EXCEPT ![p] = [NoLocal EXCEPT !.done = 0]]
    /\ pc' = [pc EXCEPT ![p] = "s_buffer"]
    /\ UNCHANGED <<sd, buffer, calls, limit, entered, ret, stream, completed, atShutdown>>

(* a shutdown that forgets the writers waiting for ring space *)
shutdown_buffer_no_writers(b) ==
    [b EXCEPT !.ready_for_reading = shared_cv_notify_all(@),
              !.ready_for_writing_alone = shared_cv_notify_all(@),
              !.ready_for_reading_alone = shared_cv_notify_all(@)]

(* lines 633-638: notify the four condition variables of one buffer under its mutex *)
shutdown_buffer(b) ==
    [b EXCEPT !.ready_for_reading = shared_cv_notify_all(@),
              !.ready_for_writing = shared_cv_notify_all(@),
              !.ready_for_writing_alone = shared_cv_notify_all(@),
              !.ready_for_reading_alone = shared_cv_notify_all(@)]

(* lines 631-640: the loop over the buffers, one buffer per step *)
ShutdownBuffer(p) ==
    /\ pc[p] = "s_buffer"
    /\ LET i == local[p].done IN
       /\ buffer[i].mutex = NoOwner
       /\ buffer' = [buffer EXCEPT ![i] = shutdown_buffer(@)]
       /\ local' = [local EXCEPT ![p].done = i + 1]
       /\ IF i + 1 < sd[p].nofprocesses
          THEN UNCHANGED <<pc, ret>>
          ELSE ShutdownReturn(p, TRUE)
    /\ UNCHANGED <<sd, header, calls, limit, entered, stream, completed, atShutdown>>


(***************************************************************************)
(* pthread_cond_wait may wake up without a notification.                   *)
(***************************************************************************)
SpuriousWakeup(p) ==
    /\ Blocked(p)
    /\ IF pc[p] = "b_wait"
       THEN /\ p \in header.wait_for_barrier
            /\ header' = [header EXCEPT !.wait_for_barrier = @ \ {p}]
            /\ UNCHANGED buffer
       ELSE LET r == local[p].recipient IN
            /\ p \in (buffer[r].ready_for_reading \cup buffer[r].ready_for_writing \cup
                      buffer[r].ready_for_writing_alone \cup buffer[r].ready_for_reading_alone)
            /\ buffer' = [buffer EXCEPT ![r].ready_for_reading = @ \ {p},
                                        ![r].ready_for_writing = @ \ {p},
                                        ![r].ready_for_writing_alone = @ \ {p},
                                        ![r].ready_for_reading_alone = @ \ {p}]
            /\ UNCHANGED header
    /\ UNCHANGED <<sd, pc, local, calls, limit, entered, ret, stream, completed, atShutdown>>

(***************************************************************************)
(* The TCP multiplexor (multiplexor.c).  Its functions are operators on    *)
(* the world w = [mpx, conn, session, obs]: a handler runs to completion   *)
(* inside one step of the loop of run_multiplexor, so a step is the        *)
(* composition of the functions the handler calls.                         *)
(***************************************************************************)
Conns == 1 .. MaxConns

Bufs == 1 .. MaxBufs

POLLIN == "POLLIN"

POLLOUT == "POLLOUT"

World == [mpx |-> mpx, conn |-> conn, session |-> session, obs |-> obs]

Commit(w) ==
    /\ mpx' = w.mpx
    /\ conn' = w.conn
    /\ session' = w.session
    /\ obs' = w.obs

(* struct connection (multiplexor.h) before accept() has produced it *)
NoConn == [alive |-> "unborn", eof |-> FALSE, oq |-> <<>>, handle |-> FALSE,
           next |-> 0, prev |-> 0]

(* struct session with its sliding buffer: sa holds the bytes sa.s[0 .. sa.len-1] *)
NoSession == [state |-> "none", sa |-> <<>>, offset |-> 0]

(* the disposition of SIGPIPE run_multiplexor finds, and the one it installs *)
SIG_DFL == "SIG_DFL"

SIG_IGN == "SIG_IGN"

(* run_multiplexor, lines 286-298: the multiplexor before the first setup_polls,
   with SIGPIPE ignored and its previous disposition kept in old_sigact *)
mpx_init(service, clients) ==
    /\ mpx = [service |-> service, socketok |-> TRUE, links |-> <<>>, count |-> 0,
              head |-> 0, tail |-> 0,
              pollfds |-> <<>>, pollfdslen |-> 0, index |-> 0, pc |-> "setup",
              sigpipe |-> SIG_IGN, old_sigact |-> SIG_DFL]
    /\ conn = [c \in Conns |-> NoConn]
    /\ session = [c \in Conns |-> NoSession]
    /\ obs = [closes |-> [c \in Conns |-> 0],        \* close(fd) calls
              chandler |-> [c \in Conns |-> 0],      \* close handler calls
              late |-> {},                           \* open or input handler after the close handler
              wire |-> [c \in Conns |-> <<>>],       \* bytes write() accepted
              queued |-> [c \in Conns |-> <<>>],     \* bytes of the segments write_to_link queued
              frees |-> [b \in Bufs |-> 0],          \* free(buf) calls
              owner |-> [b \in Bufs |-> 0],          \* connection write_to_link took the buffer for
              clients |-> clients,                   \* connections the peers are going to open
              nbufs |-> 0, naccepts |-> 0, ninputs |-> 0,
              hhandler |-> [c \in Conns |-> 0],      \* session close handler calls
              requests |-> [c \in Conns |-> 0],      \* request handler calls
              stale |-> {},                          \* sessions accessed after free(s)
              lateRequest |-> {},                    \* request handler called after free(s)
              input |-> [c \in Conns |-> <<>>],      \* bytes read() delivered to the session
              frames |-> [c \in Conns |-> <<>>],     \* requests handed to the request handler
              sclosed |-> {},                        \* sessions whose handler called close_session
              afterClose |-> {},                     \* request handler called after close_session
              lclosed |-> {},                        \* connections close_link was called for
              inputAfterClose |-> {},                \* input handler called after close_link
              refused |-> {},                        \* connections whose peer refused a write
              eintr |-> {},                          \* connections whose read() was interrupted
              pollEintr |-> FALSE,                   \* poll() was interrupted by a signal
              fdClosed |-> {},                       \* close handler called with link->fd closed
              acceptFailed |-> FALSE,                \* accept() has returned an error
              staleLink |-> {}]                      \* connections accessed after free(link)

Without(seq, c) == SelectSeq(seq, LAMBDA x : x # c)

Bytes(b, len) == [i \in 1 .. len |-> <<b, i>>]

(* mpx_session.h lines 325-336: hangup handler, then the session is released *)
mpx_close_handler(w, c) ==
    IF w.conn[c].handle
    THEN [w EXCEPT !.session[c].state = "freed", !.obs.hhandler[c] = @ + 1]
    ELSE w

(* line 169: the close handler passed to run_multiplexor is called *)
chandler(w, c) ==
    LET called == [w EXCEPT !.obs.chandler[c] = @ + 1,
                            !.obs.fdClosed = IF w.obs.closes[c] > 0 THEN @ \cup {c} ELSE @]
    IN  IF w.mpx.service = "session" THEN mpx_close_handler(called, c) ELSE called

(* lines 159-168 with mpx->tail left alone *)
unlink_keeps_tail(w, c) ==
    LET prev == w.conn[c].prev
        next == w.conn[c].next
        front == IF prev # 0 THEN [w EXCEPT !.conn[prev].next = next]
                 ELSE [w EXCEPT !.mpx.head = next]
    IN  IF next # 0 THEN [front EXCEPT !.conn[next].prev = prev]
        ELSE front

(* lines 159-168: the record is taken out of the doubly linked list *)
unlink(w, c) ==
    LET prev == w.conn[c].prev
        next == w.conn[c].next
        front == IF prev # 0 THEN [w EXCEPT !.conn[prev].next = next]
                 ELSE [w EXCEPT !.mpx.head = next]
    IN  IF next # 0 THEN [front EXCEPT !.conn[next].prev = prev]
        ELSE [front EXCEPT !.mpx.tail = prev]

(* lines 157-172: close(fd), unlink, close handler, free(link); the output
   queue of the link is not looked at, and the pointers of a freed record
   mean nothing any more *)
remove_link(w, c) ==
    LET unlinked == unlink([w EXCEPT !.obs.closes[c] = @ + 1,
                                     !.mpx.links = Without(@, c)], c)
        handled  == chandler(unlinked, c)
    IN  [handled EXCEPT !.conn[c].alive = "freed",
                        !.conn[c].next = 0, !.conn[c].prev = 0,
                        !.mpx.count = @ - 1]

(* lines 343-346 *)
close_link(w, c) ==
    IF w.conn[c].alive = "freed"
    THEN [w EXCEPT !.obs.staleLink = @ \cup {c}]
    ELSE [w EXCEPT !.conn[c].eof = TRUE, !.obs.lclosed = @ \cup {c}]

(* a read_from_link that destroys the link at once, queued output or not *)
read_from_link_eager(w, c, nbytes) ==
    IF w.conn[c].eof THEN w
    ELSE IF nbytes <= 0
         THEN remove_link([w EXCEPT !.conn[c].eof = TRUE], c)
         ELSE [w EXCEPT !.obs.ninputs = @ + 1]

(* lines 248-256; nbytes is what read() returns *)
read_from_link(w, c, nbytes) ==
    IF w.conn[c].eof THEN w
    ELSE IF nbytes <= 0
         THEN LET e == [w EXCEPT !.conn[c].eof = TRUE]
              IN  IF e.conn[c].oq = <<>> THEN remove_link(e, c) ELSE e
         ELSE [w EXCEPT !.obs.ninputs = @ + 1]

(* the value read_from_link returns *)
read_result(w, c, nbytes) == IF w.conn[c].eof THEN 0 ELSE nbytes

(* lines 325-341; b is the buffer passed, ok the outcome of malloc *)
write_to_link(w, c, b, len, ok) ==
    IF len = 0
    THEN [w EXCEPT !.obs.frees[b] = @ + 1, !.obs.owner[b] = c, !.obs.nbufs = @ + 1]
    ELSE IF ~ok
    THEN [w EXCEPT !.obs.nbufs = @ + 1]
    ELSE [w EXCEPT !.conn[c].oq = Append(@, [buf |-> b, len |-> len, pos |-> 0]),
                   !.obs.queued[c] = @ \o Bytes(b, len),
                   !.obs.owner[b] = c, !.obs.nbufs = @ + 1]

(* a write_to_socket that starts every write at the beginning of the segment *)
write_start_forgetful(head) == 0

(* line 261: the write starts at oqhead->buf + oqhead->pos *)
write_start(head) == head.pos

(* lines 259-279; nbytes is what write() returns *)
write_to_socket(w, c, nbytes) ==
    LET head == w.conn[c].oq[1]
        sent == [i \in 1 .. nbytes |-> <<head.buf, write_start(head) + i>>]
        pos  == head.pos + nbytes
    IN  IF nbytes <= 0 THEN remove_link([w EXCEPT !.obs.refused = @ \cup {c}], c)
        ELSE IF pos # head.len
        THEN [w EXCEPT !.conn[c].oq[1].pos = pos, !.obs.wire[c] = @ \o sent]
        ELSE LET done == [w EXCEPT !.conn[c].oq = Tail(@),
                                   !.obs.wire[c] = @ \o sent,
                                   !.obs.frees[head.buf] = @ + 1]
             IN  IF done.conn[c].oq = <<>> /\ done.conn[c].eof
                 THEN remove_link(done, c) ELSE done

(* lines 181-188: weed out the links that are closed and have nothing to send *)
RECURSIVE weed(_, _)
weed(w, links) ==
    IF links = <<>> THEN w
    ELSE LET c == Head(links)
         IN  weed(IF w.conn[c].eof /\ w.conn[c].oq = <<>> THEN remove_link(w, c) ELSE w,
                  Tail(links))

(* lines 207-213: the events polled for one link *)
pollfd(w, c) ==
    [link |-> c,
     events |-> (IF ~w.conn[c].eof THEN {POLLIN} ELSE {})
                \cup (IF w.conn[c].oq # <<>> THEN {POLLOUT} ELSE {}),
     revents |-> {}]

(* lines 177-178: the entries setup_polls is going to need *)
polls_needed(w) == w.mpx.count + (IF w.mpx.socketok THEN 1 ELSE 0)

(* lines 176-216 when realloc succeeds; the result is the length of mpx.pollfds *)
(* a setup_polls that goes on polling the listening descriptor *)
setup_polls_listening(w) ==
    IF polls_needed(w) = 0
    THEN [w EXCEPT !.mpx.pollfds = <<>>]
    ELSE LET weeded == weed(w, w.mpx.links)
         IN  [weeded EXCEPT !.mpx.pollfds =
                                <<[link |-> 0, events |-> {POLLIN}, revents |-> {}]>>
                                \o [i \in 1 .. Len(weeded.mpx.links) |->
                                       pollfd(weeded, weeded.mpx.links[i])],
                            !.mpx.pollfdslen = IF @ < polls_needed(w)
                                               THEN polls_needed(w) ELSE @]

setup_polls(w) ==
    IF polls_needed(w) = 0
    THEN [w EXCEPT !.mpx.pollfds = <<>>]
    ELSE LET weeded == weed(w, w.mpx.links)
             listen == IF weeded.mpx.socketok
                       THEN <<[link |-> 0, events |-> {POLLIN}, revents |-> {}]>>
                       ELSE <<>>
         IN  [weeded EXCEPT !.mpx.pollfds =
                                listen \o [i \in 1 .. Len(weeded.mpx.links) |->
                                              pollfd(weeded, weeded.mpx.links[i])],
                            !.mpx.pollfdslen = IF @ < polls_needed(w)
                                               THEN polls_needed(w) ELSE @]

(* lines 176-194 when realloc fails: the links are weeded and the result is 0 *)
setup_polls_fails(w) == [weed(w, w.mpx.links) EXCEPT !.mpx.pollfds = <<>>]

(* line 322: run_multiplexor leaves its loop and restores the disposition of SIGPIPE *)
loop_left(w) == [w EXCEPT !.mpx.pc = "returned", !.mpx.sigpipe = w.mpx.old_sigact]

(* lines 220-244 up to the open handler; accepted is whether accept() succeeded *)
add_connection(w, c, accepted) ==
    IF ~accepted THEN [w EXCEPT !.mpx.socketok = FALSE, !.obs.acceptFailed = TRUE]
    ELSE [(IF w.mpx.tail # 0 THEN [w EXCEPT !.conn[w.mpx.tail].next = c]
           ELSE [w EXCEPT !.mpx.head = c])
             EXCEPT !.conn[c] = [NoConn EXCEPT !.alive = "linked", !.prev = w.mpx.tail],
                   !.mpx.tail = c,
                   !.mpx.links = Append(@, c),
                   !.mpx.count = @ + 1,
                   !.obs.naccepts = @ + 1]

(* the loop of run_multiplexor is at the entry mpx.pollfds[mpx.index] *)
Entry == mpx.pollfds[mpx.index]

Dispatching == mpx.pc = "dispatch"

(* the loop body has dealt with the events ev of the current entry *)
Handled(w, ev) == [w EXCEPT !.mpx.pollfds[w.mpx.index].revents = @ \ ev]

(* an open or input handler is called for the link c *)
invoked(w, c) ==
    IF w.obs.chandler[c] > 0 THEN [w EXCEPT !.obs.late = @ \cup {c}] ELSE w

(* a link is dereferenced *)
touched(w, c) ==
    IF w.conn[c].alive = "freed" THEN [w EXCEPT !.obs.staleLink = @ \cup {c}] ELSE w

(* what a handler of the application does with its link: it may pass one
   buffer of act.len bytes to write_to_link, and it may call close_link *)
NoReply == [reply |-> FALSE, len |-> 0, ok |-> TRUE, close |-> FALSE]

Replies ==
    {act \in [reply : BOOLEAN, len : 0 .. MaxSegLen, ok : BOOLEAN, close : BOOLEAN] :
        ~act.reply => (act.len = 0 /\ act.ok)}

handler_calls(w, c, act) ==
    LET written == IF act.reply /\ w.obs.nbufs < MaxBufs
                   THEN write_to_link(w, c, w.obs.nbufs + 1, act.len, act.ok)
                   ELSE w
    IN  IF act.close THEN close_link(written, c) ELSE written

(* what the handlers of a service answer: those of the service "chat" answer,
   if at all, with one segment of MaxSegLen bytes *)
HandlerReplies(service) ==
    IF service = "chat"
    THEN {act \in Replies : act.reply => (act.len = MaxSegLen /\ act.ok)}
    ELSE Replies

(* the input handler is called for the link c *)
(* errno after a call that failed: a process that handles signals (service
   "signals") sees EINTR as well *)
EINTR == "EINTR"

EIO == "EIO"

Errnos(service) == IF service = "signals" THEN {EINTR, EIO} ELSE {EIO}

(* the read() of read_from_link has returned -1 with errno = EINTR *)
interrupted(w, c, eintr) ==
    IF eintr THEN [w EXCEPT !.obs.eintr = @ \cup {c}] ELSE w

input_invoked(w, c) ==
    IF c \in w.obs.lclosed THEN [w EXCEPT !.obs.inputAfterClose = @ \cup {c}] ELSE w

(* the other connections a handler called for c may close: the handlers of
   the service "chat" keep the connections they were given and may call
   close_link for any of them whose close handler has not been called; 0 is
   no connection *)
Others(w, c) ==
    IF w.mpx.service = "chat"
    THEN {0} \cup {d \in Conns \ {c} : w.conn[d].alive = "linked"}
    ELSE {0}

(* what a handler called for c does: handler_calls for its own link and, if
   other is a connection, close_link(other) *)
chat_handler_calls(w, c, act, other) ==
    LET own == handler_calls(w, c, act)
    IN  IF other # 0 THEN close_link(own, other) ELSE own

(* lines 299-300: setup_polls at the head of the loop *)
MpxSetup ==
    /\ mpx.pc = "setup"
    /\ LET w == setup_polls(World)
       IN  Commit(IF w.mpx.pollfds = <<>> THEN loop_left([w EXCEPT !.mpx.index = 0])
                  ELSE [w EXCEPT !.mpx.index = 0, !.mpx.pc = "poll"])
    /\ UNCHANGED <<sdvars, udpvars, libvars>>

(* lines 299 and 190-194: setup_polls has to enlarge its arrays and realloc
   fails; the loop ends *)
MpxSetupFails ==
    /\ mpx.pc = "setup"
    /\ polls_needed(World) > mpx.pollfdslen
    /\ Commit(loop_left([setup_polls_fails(World) EXCEPT !.mpx.index = 0]))
    /\ UNCHANGED <<sdvars, udpvars, libvars>>

(* line 301: poll reports some of the polled events *)
MpxPoll ==
    /\ mpx.pc = "poll"
    /\ \E ready \in [1 .. Len(mpx.pollfds) -> SUBSET {POLLIN, POLLOUT}] :
          /\ \A i \in 1 .. Len(mpx.pollfds) : ready[i] \subseteq mpx.pollfds[i].events
          /\ \E i \in 1 .. Len(mpx.pollfds) : ready[i] # {}
          /\ mpx' = [mpx EXCEPT !.pollfds = [i \in 1 .. Len(mpx.pollfds) |->
                                                [mpx.pollfds[i] EXCEPT !.revents = ready[i]]],
                                !.index = 1, !.pc = "dispatch"]
    /\ UNCHANGED <<conn, session, obs, sdvars, udpvars, libvars>>

(* line 301: poll fails and run_multiplexor returns *)
MpxPollFails ==
    /\ mpx.pc = "poll"
    /\ mpx' = [mpx EXCEPT !.pc = "returned"]
    /\ \E errno \in Errnos(mpx.service) :
          obs' = [obs EXCEPT !.pollEintr = (errno = EINTR)]
    /\ UNCHANGED <<conn, session, sdvars, udpvars, libvars>>

(* lines 302-303 and 318: nothing (more) to do for this entry, on to the next *)
MpxContinue ==
    /\ Dispatching
    /\ Entry.revents = {}
    /\ mpx' = IF mpx.index < Len(mpx.pollfds)
              THEN [mpx EXCEPT !.index = @ + 1]
              ELSE [mpx EXCEPT !.pc = "setup"]
    /\ UNCHANGED <<conn, session, obs, sdvars, udpvars, libvars>>

(* lines 305-306 and 222-226: accept() succeeds, malloc fails, and
   run_multiplexor returns at once *)
MpxAcceptFails ==
    /\ Dispatching
    /\ Entry.link = 0 /\ Entry.revents # {}
    /\ obs.naccepts < obs.clients
    /\ mpx' = [mpx EXCEPT !.pc = "returned"]
    /\ obs' = [obs EXCEPT !.naccepts = @ + 1]
    /\ UNCHANGED <<conn, session, sdvars, udpvars, libvars>>

(* lines 305-306: add_connection with the open handler of the application *)
MpxAccept ==
    /\ Dispatching
    /\ Entry.link = 0 /\ Entry.revents # {}
    /\ \E accepted \in BOOLEAN, act \in HandlerReplies(mpx.service) :
          /\ accepted => obs.naccepts < obs.clients
          /\ ~accepted => act = NoReply
          /\ LET c == obs.naccepts + 1
                 w == add_connection(World, c, accepted)
             IN  \E other \in Others(w, c) :
                    /\ ~accepted => other = 0
                    /\ Commit(Handled(IF accepted
                                      THEN chat_handler_calls(invoked(w, c), c, act, other)
                                      ELSE w,
                                      {POLLIN, POLLOUT}))
    /\ UNCHANGED <<sdvars, udpvars, libvars>>

(* lines 309-311: the input handler of the application: it calls read_from_link
   once and, when it got input, may answer and may close the link *)
MpxInput ==
    /\ Dispatching
    /\ Entry.link # 0 /\ POLLIN \in Entry.revents
    /\ \E nbytes \in {-1, 0, 1}, act \in HandlerReplies(mpx.service),
          errno \in Errnos(mpx.service) :
          /\ nbytes > 0 => obs.ninputs < MaxInputs
          /\ nbytes >= 0 => errno = EIO
          /\ LET c == Entry.link
                 w == touched(input_invoked(invoked(World, c), c), c)
                 read == interrupted(read_from_link(w, c, nbytes), c,
                                     ~w.conn[c].eof /\ nbytes < 0 /\ errno = EINTR)
             IN  \E other \in Others(read, c) :
                    /\ read_result(w, c, nbytes) <= 0 => (act = NoReply /\ other = 0)
                    /\ Commit(Handled(IF read_result(w, c, nbytes) > 0
                                      THEN chat_handler_calls(read, c, act, other) ELSE read,
                                      {POLLIN}))
    /\ UNCHANGED <<sdvars, udpvars, libvars>>

(* lines 312-314: write_to_socket; write() takes 1 .. len - pos bytes or fails *)
MpxWrite ==
    /\ Dispatching
    /\ Entry.link # 0 /\ POLLIN \notin Entry.revents /\ POLLOUT \in Entry.revents
    /\ \E nbytes \in -1 .. MaxSegLen :
          LET c == Entry.link
          IN  /\ nbytes <= conn[c].oq[1].len - conn[c].oq[1].pos
              /\ Commit(Handled(write_to_socket(touched(World, c), c, nbytes), {POLLOUT}))
    /\ UNCHANGED <<sdvars, udpvars, libvars>>

(***************************************************************************)
(* The session layer (mpx_session.c): the handlers run_mpx_service passes  *)
(* to run_multiplexor.  The input is made of the bytes "a", "n" and "x",   *)
(* and the regular expression of the service is a*n.                       *)
(***************************************************************************)
THRESHOLD == 64

PCRE_ERROR_NOMATCH == -1

PCRE_ERROR_PARTIAL == -12

Chunks == UNION {[1 .. n -> {"a", "n", "x"}] : n \in 1 .. MaxChunk}

(* a sliding_buffer_ready that throws the unprocessed bytes away *)
sliding_buffer_ready_reset(b) == [b EXCEPT !.sa = <<>>, !.offset = 0]

(* sliding_buffer.c lines 72-93, without the capacity of the stralloc: the
   buffer is emptied or shifted when that is cheap *)
sliding_buffer_ready(b) ==
    LET len == Len(b.sa) - b.offset
    IN  IF len = 0 THEN [b EXCEPT !.sa = <<>>, !.offset = 0]
        ELSE IF b.offset >= THRESHOLD /\ len <= THRESHOLD
        THEN [b EXCEPT !.sa = SubSeq(@, b.offset + 1, Len(@)), !.offset = 0]
        ELSE b

(* the bytes sa[from + 1 .. to] of a buffer, offsets counted from 0 *)
Range(sa, from, to) == SubSeq(sa, from + 1, to)

(* pcre_exec for a*n from offset pos: the end of the match in ovector[1] *)
RECURSIVE pcre_exec(_, _, _)
pcre_exec(sa, pos, partial) ==
    IF pos >= Len(sa)
    THEN [rval |-> IF partial THEN PCRE_ERROR_PARTIAL ELSE PCRE_ERROR_NOMATCH, pos |-> pos]
    ELSE IF sa[pos + 1] = "n" THEN [rval |-> 1, pos |-> pos + 1]
    ELSE IF sa[pos + 1] = "a" THEN pcre_exec(sa, pos + 1, partial)
    ELSE [rval |-> PCRE_ERROR_NOMATCH, pos |-> pos]

(* lines 338-341: close_session calls close_link for the link of the session *)
close_session(w, c) == close_link([w EXCEPT !.obs.sclosed = @ \cup {c}], c)

(* what a handler of the session layer does with its session: it may answer
   with one buffer (mpx_session_printf ends in write_to_link), and it may
   call close_session *)
session_handler_calls(w, c, act) ==
    LET written == handler_calls(w, c, [act EXCEPT !.close = FALSE])
    IN  IF act.close THEN close_session(written, c) ELSE written

(* mpx_session.h lines 265-284; ok is the outcome of the allocations *)
mpx_open_handler(w, c, ok, act) ==
    IF ~ok THEN close_link(w, c)
    ELSE session_handler_calls([w EXCEPT !.session[c] = [NoSession EXCEPT !.state = "live"],
                                         !.conn[c].handle = TRUE], c, act)

(* lines 300-317: every complete request in the buffer goes to the request
   handler of the application, which may answer and may call close_session *)
RECURSIVE request_loop(_, _, _, _, _)
request_loop(w, c, partial, act, rval) ==
    LET s == w.session[c]
        m == pcre_exec(s.sa, s.offset, partial)
    IN  IF s.offset < Len(s.sa)
        THEN IF m.rval >= 0
             THEN request_loop(
                      [session_handler_calls(
                           [w EXCEPT !.obs.requests[c] = @ + 1,
                                     !.obs.frames[c] = Append(@, Range(s.sa, s.offset, m.pos)),
                                     !.obs.afterClose = IF c \in w.obs.sclosed
                                                        THEN @ \cup {c} ELSE @],
                           c, act)
                          EXCEPT !.session[c].offset = m.pos],
                      c, partial, act, m.rval)
             ELSE [w |-> w, rval |-> m.rval]
        ELSE [w |-> w, rval |-> rval]

(* the handler goes on with a session record that has been released: what it
   reads there decides whether it returns, calls the request handler or
   calls close_link *)
after_free(w, c, ub) ==
    LET read == [w EXCEPT !.obs.stale = @ \cup {c}]
    IN  CASE ub = "return" -> read
          [] ub = "rhandler" -> [read EXCEPT !.obs.lateRequest = @ \cup {c}]
          [] ub = "close_link" -> close_link(read, c)

(* lines 286-323; ready is the outcome of sliding_buffer_ready, nbytes what
   read() returns and chunk the bytes it delivers *)
mpx_input_handler(w, c, ready, nbytes, chunk, act, ub) ==
    LET prepared == [w EXCEPT !.session[c] = sliding_buffer_ready(@)]
        read     == read_from_link(prepared, c, nbytes)
        got      == read_result(prepared, c, nbytes)
        filled   == IF got > 0 THEN [read EXCEPT !.session[c].sa = @ \o chunk,
                                                 !.obs.input[c] = @ \o chunk]
                    ELSE read
        looped   == request_loop(filled, c, got > 0, act, 0)
    IN  IF ~ready THEN close_link(prepared, c)
        ELSE IF read.session[c].state = "freed" THEN after_free(read, c, ub)
        ELSE IF looped.rval < 0 /\ looped.rval # PCRE_ERROR_PARTIAL
        THEN close_link(looped.w, c)
        ELSE looped.w

(* multiplexor.c lines 305-306 with mpx_open_handler *)
SessionAccept ==
    /\ Dispatching
    /\ Entry.link = 0 /\ Entry.revents # {}
    /\ \E accepted, ok \in BOOLEAN, act \in Replies :
          /\ accepted => obs.naccepts < obs.clients
          /\ ~(accepted /\ ok) => act = NoReply
          /\ ~accepted => ok
          /\ LET c == obs.naccepts + 1
                 w == add_connection(World, c, accepted)
             IN  Commit(Handled(IF accepted THEN mpx_open_handler(invoked(w, c), c, ok, act)
                                ELSE w,
                                {POLLIN, POLLOUT}))
    /\ UNCHANGED <<sdvars, udpvars, libvars>>

(* multiplexor.c lines 309-311 with mpx_input_handler *)
SessionInput ==
    /\ Dispatching
    /\ Entry.link # 0 /\ POLLIN \in Entry.revents
    /\ \E ready \in BOOLEAN, nbytes \in -1 .. MaxChunk, chunk \in Chunks \cup {<<>>},
          act \in Replies, ub \in {"return", "rhandler", "close_link"} :
          /\ Len(chunk) = (IF nbytes > 0 THEN nbytes ELSE 0)
          /\ nbytes > 0 => obs.ninputs < MaxInputs
          /\ LET c == Entry.link
                 w == mpx_input_handler(touched(input_invoked(invoked(World, c), c), c), c,
                                        ready, nbytes, chunk, act, ub)
             IN  /\ w.obs.requests[c] = obs.requests[c] => act = NoReply
                 /\ w.obs.stale = obs.stale => ub = "return"
                 /\ Commit(Handled(w, {POLLIN}))
    /\ UNCHANGED <<sdvars, udpvars, libvars>>

(***************************************************************************)
(* The UDP session service (udp_session.c), in the same style: its         *)
(* functions are operators on the world w = [udp, ulink, uobs].            *)
(***************************************************************************)
Links == 1 .. MaxLinks

Packets == 1 .. MaxPackets

UdpWorld == [udp |-> udp, ulink |-> ulink, uobs |-> uobs]

UdpCommit(w) ==
    /\ udp' = w.udp
    /\ ulink' = w.ulink
    /\ uobs' = w.uobs

(* struct udp_connection before add_connection has produced it *)
NoLink == [alive |-> "unborn", closed |-> FALSE, initialized |-> FALSE, oq |-> <<>>]

(* run_udp_service, lines 336-345: the multiplexor before the first setup_polls;
   service names the handlers of the application *)
udp_service_init(service, max_retries, peers) ==
    /\ udp = [service |-> service,
              socketok |-> TRUE, max_retries |-> max_retries, links |-> <<>>, count |-> 0,
              next_timeout |-> -1, pollfds |-> <<>>, index |-> 0, pc |-> "setup"]
    /\ ulink = [c \in Links |-> NoLink]
    /\ uobs = [closes |-> [c \in Links |-> 0],       \* close() of the descriptor of the session
               socketcloses |-> 0,                   \* close() of the socket of the service
               chandler |-> [c \in Links |-> 0],     \* close handler calls
               late |-> {},                          \* open or input handler after the close handler
               sent |-> [c \in Links |-> <<>>],      \* packets send() accepted, in order
               discarded |-> [b \in Packets |-> 0],  \* queue members released
               owner |-> [b \in Packets |-> 0],      \* link write_to_udp_link queued the packet for
               peers |-> peers,                      \* new peers that are going to send a packet
               npackets |-> 0, nlinks |-> 0, ndatagrams |-> 0,
               timedout |-> {},                      \* links whose last packet met a poll timeout
               acked |-> {},                         \* packets a datagram confirmed, with their sends so far
               unacked |-> {},                       \* links whose handler found a confirmed packet queued
               expired |-> {},                       \* links given up after max_retries attempts
               lclosed |-> {},                       \* links close_udp_link was called for
               unwaited |-> {},                      \* links given up with timeouts # attempts
               inputAfterClose |-> {},               \* input handler called after close_udp_link
               lateSends |-> [c \in Links |-> <<>>], \* packets sent after close_udp_link
               succ |-> {},                          \* packets sent while they had a successor
               overtaken |-> {},                     \* packets that got a successor while unconfirmed
               freed |-> [b \in Packets |-> 0],      \* free() of the buffer of a packet: no statement does it
               staleLink |-> {}]                     \* links accessed after free(link)

(* a service whose handlers touch their own link only *)
udp_init(max_retries, peers) == udp_service_init("echo", max_retries, peers)

(* lines 168-175: the queue member is released, its buffer is not *)
discard_oq_head(w, c) ==
    IF w.ulink[c].oq # <<>>
    THEN [w EXCEPT !.ulink[c].oq = Tail(@),
                   !.uobs.discarded[w.ulink[c].oq[1].buf] = @ + 1]
    ELSE w

(* lines 178-182 *)
RECURSIVE discard_oq(_, _)
discard_oq(w, c) ==
    IF w.ulink[c].oq # <<>> THEN discard_oq(discard_oq_head(w, c), c) ELSE w

(* lines 187-203: close(link->fd), unlink, close handler, discard_oq, free(link);
   link->fd is the socket of the service until the link is initialized *)
udp_remove_link(w, c) ==
    LET closed   == IF w.ulink[c].initialized
                    THEN [w EXCEPT !.uobs.closes[c] = @ + 1]
                    ELSE [w EXCEPT !.uobs.socketcloses = @ + 1]
        unlinked == [closed EXCEPT !.udp.links = Without(@, c),
                                   !.uobs.chandler[c] = @ + 1]
    IN  [discard_oq(unlinked, c) EXCEPT !.ulink[c].alive = "freed", !.udp.count = @ - 1]

(* a setup_polls that never gives a packet up *)
udp_weed_link_patient(w, c) ==
    LET l == w.ulink[c]
        retried == IF l.oq # <<>> /\ l.oq[1].attempts > 0 /\ l.closed
                   THEN discard_oq_head(w, c)
                   ELSE w
    IN  IF retried.ulink[c].closed /\ retried.ulink[c].oq = <<>>
        THEN udp_remove_link(retried, c) ELSE retried

(* lines 210-226: what setup_polls does to one link before it polls *)
udp_weed_link(w, c) ==
    LET l == w.ulink[c]
        retried == IF l.oq # <<>> /\ l.oq[1].attempts >= w.udp.max_retries
                   THEN [discard_oq(w, c) EXCEPT !.ulink[c].closed = TRUE,
                                                 !.uobs.expired = @ \cup {c},
                                                 !.uobs.unwaited =
                                                     IF l.oq[1].timeouts # l.oq[1].attempts
                                                     THEN @ \cup {c} ELSE @]
                   ELSE IF l.oq # <<>> /\ l.oq[1].attempts > 0 /\ l.closed
                   THEN discard_oq_head(w, c)
                   ELSE w
    IN  IF retried.ulink[c].closed /\ retried.ulink[c].oq = <<>>
        THEN udp_remove_link(retried, c) ELSE retried

RECURSIVE udp_weed(_, _)
udp_weed(w, links) ==
    IF links = <<>> THEN w ELSE udp_weed(udp_weed_link(w, Head(links)), Tail(links))

(* lines 251-266: the events polled for one link *)
udp_pollfd(w, c) ==
    LET l == w.ulink[c]
    IN  [link |-> c,
         events |-> (IF ~l.closed THEN {POLLIN} ELSE {})
                    \cup (IF l.oq # <<>> /\ l.oq[1].timeouts = l.oq[1].attempts
                          THEN {POLLOUT} ELSE {}),
         revents |-> {}, handled |-> {}]

(* lines 256-258: poll gets a timeout when a link waits for an acknowledgement *)
udp_next_timeout(w) ==
    IF \E i \in 1 .. Len(w.udp.links) :
          LET l == w.ulink[w.udp.links[i]]
          IN  l.oq # <<>> /\ ~l.closed /\ l.oq[1].attempts > 0
    THEN 1 ELSE -1

(* lines 207-271; the result is the length of udp.pollfds *)
udp_setup_polls(w) ==
    LET weeded == udp_weed(w, w.udp.links)
        listen == IF weeded.udp.socketok
                  THEN <<[link |-> 0, events |-> {POLLIN}, revents |-> {}, handled |-> {}]>>
                  ELSE <<>>
    IN  IF weeded.udp.count + (IF weeded.udp.socketok THEN 1 ELSE 0) = 0
        THEN [weeded EXCEPT !.udp.pollfds = <<>>]
        ELSE [weeded EXCEPT !.udp.next_timeout = udp_next_timeout(weeded),
                            !.udp.pollfds =
                                listen \o [i \in 1 .. Len(weeded.udp.links) |->
                                              udp_pollfd(weeded, weeded.udp.links[i])]]

(* a write_to_socket that keeps every packet for retransmission *)
udp_write_keeps(w, c, nbytes) ==
    LET head == w.ulink[c].oq[1]
        sent == [w EXCEPT !.uobs.sent[c] = Append(@, head.buf),
                          !.uobs.succ = IF Len(w.ulink[c].oq) > 1
                                        THEN @ \cup {head.buf} ELSE @]
    IN  IF nbytes < 0 THEN udp_remove_link(w, c)
        ELSE [sent EXCEPT !.ulink[c].oq[1].attempts = @ + 1]

(* lines 274-287; nbytes is what send() returns *)
udp_write_to_socket(w, c, nbytes) ==
    LET head == w.ulink[c].oq[1]
        sent == [w EXCEPT !.uobs.sent[c] = Append(@, head.buf),
                          !.uobs.timedout = @ \ {c},
                          !.uobs.lateSends[c] = IF c \in w.uobs.lclosed
                                                THEN Append(@, head.buf) ELSE @,
                          !.uobs.succ = IF Len(w.ulink[c].oq) > 1
                                        THEN @ \cup {head.buf} ELSE @]
    IN  IF nbytes < 0 THEN udp_remove_link(w, c)
        ELSE IF Len(w.ulink[c].oq) > 1 THEN discard_oq_head(sent, c)
        ELSE [sent EXCEPT !.ulink[c].oq[1].attempts = @ + 1]


(* lines 392-406; ok is the outcome of malloc *)
write_to_udp_link(w, c, b, ok) ==
    IF ~ok THEN [w EXCEPT !.uobs.npackets = @ + 1]
    ELSE [w EXCEPT !.ulink[c].oq = Append(@, [buf |-> b, attempts |-> 0, timeouts |-> 0]),
                   !.uobs.owner[b] = c, !.uobs.npackets = @ + 1,
                   !.uobs.overtaken = IF w.ulink[c].oq # <<>> /\ w.ulink[c].oq[1].attempts > 0
                                      THEN @ \cup {w.ulink[c].oq[1].buf} ELSE @]

(* lines 410-445; nbytes is what read or recvfrom (with socket and connect) yield *)
read_from_udp_link(w, c, nbytes) ==
    IF w.ulink[c].closed THEN w
    ELSE IF nbytes < 0
    THEN LET e == [w EXCEPT !.ulink[c].closed = TRUE]
         IN  IF e.ulink[c].oq = <<>> THEN udp_remove_link(e, c) ELSE e
    ELSE [w EXCEPT !.ulink[c].initialized = TRUE]

(* lines 448-453 *)
close_udp_link(w, c) ==
    IF w.ulink[c].alive = "freed"
    THEN [w EXCEPT !.uobs.staleLink = @ \cup {c}]
    ELSE [w EXCEPT !.ulink[c].closed = TRUE, !.uobs.lclosed = @ \cup {c}]

(* a handler of the application: it calls read_from_udp_link once and, when it
   got a packet, may pass one buffer to write_to_udp_link and may call
   close_udp_link *)
UdpReplies == {act \in [reply : BOOLEAN, ok : BOOLEAN, close : BOOLEAN] : ~act.reply => act.ok}

UdpNoReply == [reply |-> FALSE, ok |-> TRUE, close |-> FALSE]

udp_handler(w, c, nbytes, act) ==
    LET seen    == IF \E i \in 1 .. Len(w.ulink[c].oq), a \in w.uobs.acked :
                         w.ulink[c].oq[i].buf = a.buf
                   THEN [w EXCEPT !.uobs.unacked = @ \cup {c}] ELSE w
        late    == IF w.uobs.chandler[c] > 0 THEN [seen EXCEPT !.uobs.late = @ \cup {c}] ELSE seen
        called  == IF c \in w.uobs.lclosed
                   THEN [late EXCEPT !.uobs.inputAfterClose = @ \cup {c}] ELSE late
        read    == read_from_udp_link(called, c, nbytes)
        written == IF act.reply /\ read.uobs.npackets < MaxPackets
                   THEN write_to_udp_link(read, c, read.uobs.npackets + 1, act.ok)
                   ELSE read
    IN  IF nbytes < 0 \/ w.ulink[c].closed THEN read
        ELSE IF act.close THEN close_udp_link(written, c) ELSE written

(* what a handler of the service "chat" does to a link other than its own: it
   queues a packet for it or closes it; the handlers of the other services
   leave the other links alone *)
UdpNobody == [what |-> "none", link |-> 0]

UdpOthers(w, c) ==
    IF w.udp.service = "chat"
    THEN {UdpNobody} \cup
         {[what |-> what, link |-> d] :
             what \in {"write", "close"},
             d \in {d \in Links \ {c} : w.ulink[d].alive = "linked"}}
    ELSE {UdpNobody}

udp_chat_calls(w, other) ==
    IF other.what = "close" /\ w.ulink[other.link].alive = "linked"
    THEN close_udp_link(w, other.link)
    ELSE IF other.what = "write" /\ w.ulink[other.link].alive = "linked"
                                /\ w.uobs.npackets < MaxPackets
    THEN write_to_udp_link(w, other.link, w.uobs.npackets + 1, TRUE)
    ELSE w

(* lines 291-320: add_connection with the handler of the first packet; the
   assertion of line 318 reads the link again *)
udp_add_connection(w, c, nbytes, act) ==
    LET added   == [w EXCEPT !.ulink[c] = [NoLink EXCEPT !.alive = "linked"],
                             !.udp.links = Append(@, c),
                             !.udp.count = @ + 1,
                             !.uobs.nlinks = @ + 1]
        handled == udp_handler(added, c, nbytes, act)
    IN  IF handled.ulink[c].alive = "freed"
        THEN [handled EXCEPT !.uobs.staleLink = @ \cup {c}]
        ELSE handled

(* the number of times the packet b has been sent on the link c *)
Sends(w, c, b) == Len(SelectSeq(w.uobs.sent[c], LAMBDA x : x = b))

(* a datagram that confirms nothing *)
udp_confirm_nothing(w, c) ==
    IF w.ulink[c].oq # <<>> /\ w.ulink[c].oq[1].attempts > 0
    THEN [w EXCEPT !.uobs.acked = @ \cup {[buf |-> w.ulink[c].oq[1].buf,
                                            sends |-> Sends(w, c, w.ulink[c].oq[1].buf)]}]
    ELSE w

(* a datagram that confirms the head of the queue, sent or not *)
udp_confirm_unsent(w, c) ==
    IF w.ulink[c].oq # <<>> THEN discard_oq_head(w, c) ELSE w

(* lines 361-364: a datagram on the link confirms the packet sent last *)
udp_confirm(w, c) ==
    IF w.ulink[c].oq # <<>> /\ w.ulink[c].oq[1].attempts > 0
    THEN discard_oq_head(
             [w EXCEPT !.uobs.acked = @ \cup {[buf |-> w.ulink[c].oq[1].buf,
                                               sends |-> Sends(w, c, w.ulink[c].oq[1].buf)]}],
             c)
    ELSE w

(* lines 371-385: after a timeout, count it for the packets that wait for
   their acknowledgement and are polled for POLLOUT *)
udp_timeout_entry(w, e) ==
    LET c == e.link
    IN  IF c = 0 THEN w
        ELSE LET waiting == [w EXCEPT !.uobs.timedout =
                                IF /\ w.ulink[c].oq # <<>> /\ ~w.ulink[c].closed
                                   /\ w.ulink[c].oq[1].attempts > 0
                                THEN @ \cup {c} ELSE @]
             IN  IF /\ w.ulink[c].oq # <<>>
                    /\ w.ulink[c].oq[1].timeouts < w.ulink[c].oq[1].attempts
                    /\ POLLOUT \in e.events
                 THEN [waiting EXCEPT !.ulink[c].oq[1].timeouts = @ + 1]
                 ELSE waiting

RECURSIVE udp_timeout(_, _)
udp_timeout(w, entries) ==
    IF entries = <<>> THEN w
    ELSE udp_timeout(udp_timeout_entry(w, Head(entries)), Tail(entries))

UdpEntry == udp.pollfds[udp.index]

(* the events ev of the current entry have been dealt with *)
UdpHandled(w, ev) ==
    [w EXCEPT !.udp.pollfds[w.udp.index].revents = @ \ ev,
              !.udp.pollfds[w.udp.index].handled =
                  @ \cup (w.udp.pollfds[w.udp.index].revents \cap ev)]

(* line 348: setup_polls at the head of the loop *)
UdpSetup ==
    /\ udp.pc = "setup"
    /\ LET w == udp_setup_polls(UdpWorld)
       IN  UdpCommit([w EXCEPT !.udp.index = 0,
                               !.udp.pc = IF w.udp.pollfds = <<>> THEN "returned" ELSE "poll"])
    /\ UNCHANGED <<sdvars, tcpvars, libvars>>

(* lines 349-351: poll reports some of the polled events *)
UdpPoll ==
    /\ udp.pc = "poll"
    /\ \E ready \in [1 .. Len(udp.pollfds) -> SUBSET {POLLIN, POLLOUT}] :
          /\ \A i \in 1 .. Len(udp.pollfds) : ready[i] \subseteq udp.pollfds[i].events
          /\ \A i \in 1 .. Len(udp.pollfds) :
                (udp.pollfds[i].link = 0 /\ uobs.nlinks >= uobs.peers) => ready[i] = {}
          /\ \E i \in 1 .. Len(udp.pollfds) : ready[i] # {}
          /\ udp' = [udp EXCEPT !.pollfds = [i \in 1 .. Len(udp.pollfds) |->
                                                [udp.pollfds[i] EXCEPT !.revents = ready[i]]],
                                !.index = 1, !.pc = "dispatch"]
    /\ UNCHANGED <<ulink, uobs, sdvars, tcpvars, libvars>>

(* line 350: poll fails and run_udp_service returns *)
UdpPollFails ==
    /\ udp.pc = "poll"
    /\ udp' = [udp EXCEPT !.pc = "returned"]
    /\ UNCHANGED <<ulink, uobs, sdvars, tcpvars, libvars>>

(* lines 371-385: poll runs into its timeout *)
UdpPollTimeout ==
    /\ udp.pc = "poll"
    /\ udp.next_timeout # -1
    /\ UdpCommit([udp_timeout(UdpWorld, udp.pollfds) EXCEPT !.udp.pc = "setup"])
    /\ UNCHANGED <<sdvars, tcpvars, libvars>>

(* lines 353-354 and 370: nothing (more) to do for this entry, on to the next *)
UdpContinue ==
    /\ udp.pc = "dispatch"
    /\ UdpEntry.revents = {}
    /\ udp' = IF udp.index < Len(udp.pollfds)
              THEN [udp EXCEPT !.index = @ + 1]
              ELSE [udp EXCEPT !.pc = "setup"]
    /\ UNCHANGED <<ulink, uobs, sdvars, tcpvars, libvars>>

(* lines 356-357: a packet on the socket of the service opens a session *)
UdpAccept ==
    /\ udp.pc = "dispatch"
    /\ UdpEntry.link = 0 /\ UdpEntry.revents # {}
    /\ \E nbytes \in {-1, 1}, act \in UdpReplies, other \in UdpOthers(UdpWorld, uobs.nlinks + 1) :
          /\ nbytes < 0 => act = UdpNoReply /\ other = UdpNobody
          /\ UdpCommit(UdpHandled(
                 udp_chat_calls(udp_add_connection(UdpWorld, uobs.nlinks + 1, nbytes, act),
                                other),
                 {POLLIN, POLLOUT}))
    /\ UNCHANGED <<sdvars, tcpvars, libvars>>

(* lines 360-366: a datagram on a link confirms the packet sent last and goes
   to the input handler *)
UdpInput ==
    /\ udp.pc = "dispatch"
    /\ UdpEntry.link # 0 /\ POLLIN \in UdpEntry.revents
    /\ \E nbytes \in {-1, 1}, act \in UdpReplies, other \in UdpOthers(UdpWorld, UdpEntry.link) :
          /\ nbytes < 0 => act = UdpNoReply /\ other = UdpNobody
          /\ nbytes > 0 => uobs.ndatagrams < MaxDatagrams
          /\ LET c == UdpEntry.link
                 w == [UdpWorld EXCEPT !.uobs.timedout = @ \ {c},
                                       !.uobs.ndatagrams = @ + (IF nbytes > 0 THEN 1 ELSE 0)]
             IN  UdpCommit(UdpHandled(
                     udp_chat_calls(udp_handler(udp_confirm(w, c), c, nbytes, act), other),
                     {POLLIN}))
    /\ UNCHANGED <<sdvars, tcpvars, libvars>>

(* lines 367-369: write_to_socket *)
UdpWrite ==
    /\ udp.pc = "dispatch"
    /\ UdpEntry.link # 0 /\ POLLIN \notin UdpEntry.revents /\ POLLOUT \in UdpEntry.revents
    /\ \E nbytes \in {-1, 1} :
          UdpCommit(UdpHandled(udp_write_to_socket(UdpWorld, UdpEntry.link, nbytes), {POLLOUT}))
    /\ UNCHANGED <<sdvars, tcpvars, libvars>>

(***************************************************************************)
(* The scenarios of the communication domain.                              *)
(***************************************************************************)
(* the network services while the model runs the communication domain *)
(***************************************************************************)
(* shared_mutex and shared_cv: a process-shared mutex that blocks a set of *)
(* signals while it is held.  A signal set is a set of signal names.       *)
(***************************************************************************)
Signals == {"SIGINT", "SIGTERM"}

MxThreads == 0 .. (MxProcs - 1)

(* the sigmask argument is a pointer: <<>> is the null pointer of
   shared_mutex_create, <<set>> points to a signal set *)
NoSigmask == <<>>

(* lines 86-116: shared_mutex_create_with_sigmask(sm, sigmask), called by one
   process before the threads, whose signal masks are masks[p], use the mutex *)
shared_mutex_create_with_sigmask(sigmask, masks) ==
    /\ sm = [mutex |-> NoOwner,
             blocked_sigset |-> IF sigmask = NoSigmask THEN {} ELSE sigmask[1],
             block_signals |-> sigmask # NoSigmask,
             old_sigset |-> {}]
    /\ thread = [p \in DOMAIN masks |->
                    [pc |-> "idle", sigmask |-> masks[p], prev_sigset |-> {},
                     before |-> masks[p], locks |-> 0, waits |-> 0, unlocks |-> 0]]

(* lines 133-138 of shared_mutex_lock: pthread_sigmask(SIG_BLOCK, ...) stores the
   mask of the caller in the local prev_sigset; before is the history of the
   mask the thread had when it called shared_mutex_lock *)
MutexBlock(p) ==
    /\ thread[p].pc = "idle"
    /\ thread[p].locks < MaxLocks
    /\ thread' = [thread EXCEPT ![p] =
                     [@ EXCEPT !.pc = "lock",
                               !.locks = @ + 1,
                               !.before = thread[p].sigmask,
                               !.prev_sigset = IF sm.block_signals
                                               THEN thread[p].sigmask ELSE @,
                               !.sigmask = IF sm.block_signals
                                           THEN @ \cup sm.blocked_sigset ELSE @]]
    /\ UNCHANGED sm

(* lines 139-149 of shared_mutex_lock: pthread_mutex_lock returns when the
   mutex is free; on failure the mask is put back, on success prev_sigset is
   stored in the shared old_sigset *)
MutexLock(p) ==
    /\ thread[p].pc = "lock"
    /\ sm.mutex = NoOwner
    /\ \E ok \in BOOLEAN :
          IF ok
          THEN /\ sm' = [sm EXCEPT !.mutex = p,
                                   !.old_sigset = IF sm.block_signals
                                                  THEN thread[p].prev_sigset ELSE @]
               /\ thread' = [thread EXCEPT ![p].pc = "held"]
          ELSE /\ thread' = [thread EXCEPT ![p] =
                                [@ EXCEPT !.pc = "idle",
                                          !.sigmask = IF sm.block_signals
                                                      THEN thread[p].prev_sigset ELSE @]]
               /\ UNCHANGED sm

(* line 153 of shared_mutex_unlock: pthread_mutex_unlock *)
MutexUnlock(p) ==
    /\ thread[p].pc = "held"
    /\ sm.mutex = p
    /\ sm' = [sm EXCEPT !.mutex = NoOwner]
    /\ thread' = [thread EXCEPT ![p].pc = "restore"]

(* lines 157-160 of shared_mutex_unlock: with the mutex released, the mask is
   set from the shared old_sigset *)
MutexRestore(p) ==
    /\ thread[p].pc = "restore"
    /\ thread' = [thread EXCEPT ![p] =
                     [@ EXCEPT !.pc = "idle",
                               !.unlocks = @ + 1,
                               !.sigmask = IF sm.block_signals
                                           THEN sm.old_sigset ELSE @]]
    /\ UNCHANGED sm

(* shared_cv_wait, shared_cv.c lines 87-89: pthread_cond_wait releases the
   pthread mutex inside sm; the signal sets are left alone *)
CvWait(p) ==
    /\ thread[p].pc = "held"
    /\ sm.mutex = p
    /\ thread[p].waits < MaxWaits
    /\ sm' = [sm EXCEPT !.mutex = NoOwner]
    /\ thread' = [thread EXCEPT ![p] = [@ EXCEPT !.pc = "wait", !.waits = @ + 1]]

(* pthread_cond_wait returns, after a notification or spuriously, with the
   pthread mutex taken again *)
CvWake(p) ==
    /\ thread[p].pc = "wait"
    /\ sm.mutex = NoOwner
    /\ sm' = [sm EXCEPT !.mutex = p]
    /\ thread' = [thread EXCEPT ![p].pc = "held"]

(***************************************************************************)
(* mpx_session_scan: a session of a service whose framing regex is         *)
(* (a)?(b)?n, with two capturing groups that need not participate; the     *)
(* request handler calls mpx_session_scan with a stralloc for every group. *)
(***************************************************************************)
CaptureCount == 2

Bursts == UNION {[1 .. n -> {"a", "b", "n"}] : n \in 1 .. MaxBurst}

(* what pcre_exec leaves in ovector for the anchored (a)?(b)?n at offset pos:
   the offsets of the match and of every group, -1 for a group that did not
   participate; rval is the highest numbered group that matched plus 1 *)
pcre_exec_groups(sa, pos, partial) ==
    LET at(i) == IF i < Len(sa) THEN sa[i + 1] ELSE "end"
        p1 == IF at(pos) = "a" THEN pos + 1 ELSE pos
        p2 == IF at(p1) = "b" THEN p1 + 1 ELSE p1
        g1 == IF p1 > pos THEN <<pos, p1>> ELSE <<-1, -1>>
        g2 == IF p2 > p1 THEN <<p1, p2>> ELSE <<-1, -1>>
    IN  IF at(p2) = "n"
        THEN [rval |-> IF p2 > p1 THEN 3 ELSE IF p1 > pos THEN 2 ELSE 1,
              ovector |-> <<pos, p2 + 1>> \o g1 \o g2]
        ELSE [rval |-> IF at(p2) = "end" /\ partial
                       THEN PCRE_ERROR_PARTIAL ELSE PCRE_ERROR_NOMATCH,
              ovector |-> <<-1, -1, -1, -1, -1, -1>>]

(* what pcre_exec leaves in ovector for the anchored a* at offset pos: the
   match may be empty; with PCRE_PARTIAL_HARD a match that runs into the end
   of the subject is a partial one *)
pcre_exec_star(sa, pos, partial) ==
    LET at(i) == IF i < Len(sa) THEN sa[i + 1] ELSE "end"
        stops == {p \in pos .. Len(sa) : at(p) # "a"}
        end == CHOOSE p \in stops : \A q \in stops : p <= q
    IN  IF at(end) = "end" /\ partial
        THEN [rval |-> PCRE_ERROR_PARTIAL, ovector |-> <<-1, -1, -1, -1, -1, -1>>]
        ELSE [rval |-> 1, ovector |-> <<pos, end, -1, -1, -1, -1>>]

(* pcre_exec with the compiled framing regex of the service *)
pcre_exec_regex(regex, sa, pos, partial) ==
    IF regex = "a*" THEN pcre_exec_star(sa, pos, partial)
    ELSE pcre_exec_groups(sa, pos, partial)

(* ovector[k] of the C code, whose indices start at 0 *)
OvecAt(ovector, k) == ovector[k + 1]

(* a stralloc the handler passed that mpx_session_scan did not touch *)
Untouched == [len |-> -1, s |-> <<>>]

(* mpx_session.h lines 354-378 with a stralloc for every group: the values
   stored and the count returned; ok is the outcome of stralloc_copyb, and a
   failed assertion (line 369; the Makefile does not define NDEBUG) aborts *)
RECURSIVE mpx_session_scan(_, _, _, _)
mpx_session_scan(s, i, ok, out) ==
    IF i > s.count THEN [count |-> s.count, sa |-> out, aborted |-> FALSE]
    ELSE LET start == OvecAt(s.ovector, 2 * i) - s.offset
             len == OvecAt(s.ovector, 2 * i + 1) - OvecAt(s.ovector, 2 * i)
         IN  IF start = -1
             THEN mpx_session_scan(s, i + 1, ok,
                                   [out EXCEPT ![i] = [len |-> 0, s |-> <<>>]])
             ELSE IF ~(start >= 0 /\ len <= s.request_len)
             THEN [count |-> s.count, sa |-> out, aborted |-> TRUE]
             ELSE IF ~ok
             THEN [count |-> -1, sa |-> out, aborted |-> FALSE]
             ELSE mpx_session_scan(s, i + 1, ok,
                      [out EXCEPT ![i] = [len |-> len,
                                          s |-> Range(s.request, start, start + len)]])

(* the session after mpx_input_handler has read one burst into an empty
   sliding buffer (lines 291-301) *)
scan_regex_init(regex, burst) ==
    scan = [regex |-> regex, sa |-> burst, offset |-> 0, pc |-> "loop", calls |-> <<>>]

scan_init(burst) == scan_regex_init("(a)?(b)?n", burst)

(* lines 303-317: one iteration of the request loop, whose request handler
   calls mpx_session_scan; the history calls keeps what every call was given
   and what it returned *)
ScanRequest ==
    /\ scan.pc = "loop"
    /\ scan.offset < Len(scan.sa)
    /\ Len(scan.calls) < MaxCalls
    /\ LET m == pcre_exec_regex(scan.regex, scan.sa, scan.offset, TRUE)
           pos == OvecAt(m.ovector, 1)
           s == [count |-> m.rval - 1, ovector |-> m.ovector, offset |-> scan.offset,
                 request |-> Range(scan.sa, scan.offset, Len(scan.sa)),
                 request_len |-> pos - scan.offset]
       IN  /\ m.rval >= 0
           /\ \E ok \in BOOLEAN :
                 LET r == mpx_session_scan(s, 1, ok, [i \in 1 .. CaptureCount |-> Untouched])
                 IN  scan' = [scan EXCEPT
                                 !.calls = Append(@, [request |-> Range(scan.sa, scan.offset, pos),
                                                      offset |-> scan.offset,
                                                      count |-> s.count, ok |-> ok,
                                                      returned |-> r]),
                                 !.offset = IF r.aborted THEN @ ELSE pos,
                                 !.pc = IF r.aborted THEN "aborted" ELSE "loop"]

(* lines 303-322: the loop ends when the buffer is used up or nothing matches *)
ScanReturn ==
    /\ scan.pc = "loop"
    /\ \/ scan.offset >= Len(scan.sa)
       \/ pcre_exec_regex(scan.regex, scan.sa, scan.offset, TRUE).rval < 0
    /\ scan' = [scan EXCEPT !.pc = "returned"]

(***************************************************************************)
(* sliding_buffer_ready with the capacity of the stralloc: sa.s holds the  *)
(* sa.len bytes in use, sa.a is the number of bytes allocated.             *)
(***************************************************************************)
(* lines 78-79 and 89-90: memmove of the unread bytes to the front *)
sb_shift_unmoved(b) ==
    [b EXCEPT !.offset = 0, !.sa.len = b.sa.len - b.offset,
              !.sa.s = SubSeq(b.sa.s, 1, b.sa.len - b.offset)]

sb_shift(b) ==
    [b EXCEPT !.offset = 0, !.sa.len = b.sa.len - b.offset,
              !.sa.s = SubSeq(b.sa.s, b.offset + 1, b.sa.len)]

(* stralloc_readyplus(sa, n) of the stralloc library: on success at least
   sa.len + n bytes are allocated and the bytes in use are kept; the library
   allocates an eighth more plus 30 bytes *)
stralloc_readyplus(sa, n, ok) ==
    IF sa.a >= sa.len + n THEN [ok |-> TRUE, sa |-> sa]
    ELSE IF ~ok THEN [ok |-> FALSE, sa |-> sa]
    ELSE [ok |-> TRUE, sa |-> [sa EXCEPT !.a = (sa.len + n) + ((sa.len + n) \div 8) + 30]]

(* sliding_buffer.c lines 72-93; ok is the outcome of the allocation *)
sliding_buffer_ready_minspace(sb, minspace, ok) ==
    LET len == sb.sa.len - sb.offset
        b1 == IF len = 0
              THEN [sb EXCEPT !.offset = 0, !.sa.len = 0, !.sa.s = <<>>]
              ELSE IF sb.offset >= THRESHOLD /\ len <= THRESHOLD
              THEN sb_shift(sb)
              ELSE sb
        space_left == b1.sa.a - b1.sa.len + b1.offset
        grown == stralloc_readyplus(b1.sa, minspace, ok)
    IN  IF b1.sa.a - b1.sa.len >= minspace THEN [ok |-> TRUE, buffer |-> b1]
        ELSE IF space_left < minspace
        THEN [ok |-> grown.ok, buffer |-> [b1 EXCEPT !.sa = grown.sa]]
        ELSE [ok |-> TRUE, buffer |-> sb_shift(b1)]

(* the sliding buffers the calls are made for: offset bytes are used up,
   unread bytes wait, free bytes are allocated behind them; every byte is
   named by its position so that a moved byte can be told from another *)
SbOffsets == {0, 1, THRESHOLD - 1, THRESHOLD, THRESHOLD + 1}

SbUnread == {0, 1, THRESHOLD, THRESHOLD + 1}

SbBuffer(offset, unread, free) ==
    [offset |-> offset,
     sa |-> [s |-> [i \in 1 .. (offset + unread) |-> i],
             len |-> offset + unread,
             a |-> offset + unread + free]]

sb_init(sb, minspace) ==
    sbuf = [pc |-> "call", minspace |-> minspace, before |-> sb,
            buffer |-> sb, ok |-> FALSE]

(* the call of sliding_buffer_ready(buffer, minspace) *)
SbReady ==
    /\ sbuf.pc = "call"
    /\ \E ok \in BOOLEAN :
          LET r == sliding_buffer_ready_minspace(sbuf.buffer, sbuf.minspace, ok)
          IN  sbuf' = [sbuf EXCEPT !.pc = "returned", !.buffer = r.buffer, !.ok = r.ok]

(***************************************************************************)
(* sd_setup_with_extra_space: the creation of the shared memory, of the    *)
(* mutex and condition variable of the header and of the mutex and the     *)
(* four condition variables of every buffer, and the way back when one of  *)
(* them cannot be created.  An object is "none" before it is created,      *)
(* "live" afterwards and "freed" once it has been destroyed.               *)
(***************************************************************************)
(* the objects of a buffer in the order init_buffer creates them *)
BufferObjects == <<"mutex", "ready_for_reading", "ready_for_writing",
                   "ready_for_writing_alone", "ready_for_reading_alone">>

NoObjects == [k \in 1 .. Len(BufferObjects) |-> "none"]

(* lines 208-236: init_buffer, where the creation of object number fail goes
   wrong (0: none does); the objects created before it are destroyed again *)
init_buffer_objects(fail) ==
    [k \in 1 .. Len(BufferObjects) |->
        IF fail = 0 THEN "live" ELSE IF k < fail THEN "freed" ELSE "none"]

(* lines 240-254: free_buffer destroys every object of the buffer b; the
   destruction of an object that is not live is noted in stale *)
free_buffer(d, b) ==
    [d EXCEPT !.objects[b] = [k \in 1 .. Len(BufferObjects) |->
                                 IF d.objects[b][k] = "live" THEN "freed" ELSE d.objects[b][k]],
              !.frees[b] = @ + 1,
              !.stale = IF \E k \in 1 .. Len(BufferObjects) : d.objects[b][k] # "live"
                        THEN @ \cup {b} ELSE @]

(* lines 293-298: free_header *)
free_header(d) == [d EXCEPT !.header = "freed"]

(* lines 304-307: the call with its nofprocesses *)
setup_call(nofprocesses) ==
    dom = [pc |-> "open", nofprocesses |-> nofprocesses, i |-> 0, j |-> 0, failed |-> -1,
           mapped |-> FALSE, header |-> "none",
           objects |-> [b \in 0 .. (nofprocesses - 1) |-> NoObjects],
           frees |-> [b \in 0 .. (nofprocesses - 1) |-> 0],
           stale |-> {}, result |-> "pending"]

(* lines 308-327: mkstemp, ftruncate, malloc and mmap; each of them may fail,
   and then the call returns null with nothing mapped *)
SetupOpen ==
    /\ dom.pc = "open"
    /\ \E ok \in BOOLEAN :
          dom' = IF ok THEN [dom EXCEPT !.pc = "header", !.mapped = TRUE]
                 ELSE [dom EXCEPT !.pc = "returned", !.result = "null"]

(* lines 329-333 with init_header, lines 266-291: its mutex or its condition
   variable may fail; the mutex is freed again when the latter does *)
SetupHeader ==
    /\ dom.pc = "header"
    /\ \E ok \in BOOLEAN :
          dom' = IF ok THEN [dom EXCEPT !.pc = "buffers", !.header = "live"]
                 ELSE [dom EXCEPT !.pc = "fail"]

(* lines 340-344: init_buffer for the buffer i *)
SetupBuffer ==
    /\ dom.pc = "buffers"
    /\ dom.i < dom.nofprocesses
    /\ \E fail \in 0 .. Len(BufferObjects) :
          dom' = IF fail = 0
                 THEN [dom EXCEPT !.objects[dom.i] = init_buffer_objects(0), !.i = @ + 1]
                 ELSE [dom EXCEPT !.objects[dom.i] = init_buffer_objects(fail),
                                  !.failed = dom.i, !.j = 0, !.pc = "rollback"]

(* lines 345-350: one turn of the loop over j < i; the address handed to
   free_buffer is first_buffer + i * buffer_stride *)
SetupUndo ==
    /\ dom.pc = "rollback"
    /\ dom.j < dom.i
    /\ dom' = [free_buffer(dom, dom.i) EXCEPT !.j = @ + 1]

(* lines 351-352: after the loop, free_header and goto fail *)
SetupFreeHeader ==
    /\ dom.pc = "rollback"
    /\ dom.j >= dom.i
    /\ dom' = [free_header(dom) EXCEPT !.pc = "fail"]

(* lines 376-381: fail *)
SetupFail ==
    /\ dom.pc = "fail"
    /\ dom' = [dom EXCEPT !.mapped = FALSE, !.result = "null", !.pc = "returned"]

(* lines 356-374: every buffer is initialised, the handle is returned *)
SetupReturn ==
    /\ dom.pc = "buffers"
    /\ dom.i >= dom.nofprocesses
    /\ dom' = [dom EXCEPT !.result = "sd", !.pc = "returned"]

(* no domain is being set up *)
DomIdle ==
    dom = [pc |-> "returned", nofprocesses |-> 0, i |-> 0, j |-> 0, failed |-> -1,
           mapped |-> FALSE, header |-> "none", objects |-> <<>>, frees |-> <<>>,
           stale |-> {}, result |-> "null"]

(* no sliding buffer is looked at *)
SbIdle == sbuf = [pc |-> "returned", minspace |-> 0, before |-> SbBuffer(0, 0, 0),
                  buffer |-> SbBuffer(0, 0, 0), ok |-> TRUE]

(* no scanning session is running *)
ScanIdle == scan = [regex |-> "(a)?(b)?n", sa |-> <<>>, offset |-> 0, pc |-> "returned",
                    calls |-> <<>>]

(* no shared mutex with signal sets is in use *)
MxIdle == shared_mutex_create_with_sigmask(NoSigmask, <<>>)

NetIdle == mpx_init("raw", 0) /\ udp_init(1, 0) /\ MxIdle /\ ScanIdle /\ SbIdle /\ DomIdle

Calls(b, w, r, s, to, sizes) ==
    [barrier |-> b, write |-> w, read |-> r, shutdown |-> s, to |-> to, sizes |-> sizes]

(* every participant calls sd_barrier once per round; nobody shuts down *)
BarrierInit ==
    /\ sd_setup(BarrierProcs, [c \in 0 .. (BarrierProcs - 1) |-> c],
                [c \in 0 .. (BarrierProcs - 1) |-> Calls(MaxRounds, 0, 0, 0, {}, {})])
    /\ NetIdle

BarrierNext ==
    \/ \E p \in Callers : BarrierCall(p) /\ UNCHANGED netvars
    \/ \E p \in Callers : BarrierLock(p) /\ UNCHANGED netvars
    \/ \E p \in Callers : BarrierCheck(p) /\ UNCHANGED netvars
    \/ \E p \in Callers : BarrierSync(p) /\ UNCHANGED netvars
    \/ \E p \in Callers : BarrierWake(p) /\ UNCHANGED netvars
    \/ \E p \in Callers : BarrierRetest(p) /\ UNCHANGED netvars
    \/ \E p \in Callers : SpuriousWakeup(p) /\ UNCHANGED netvars

BarrierSpec == BarrierInit /\ [][BarrierNext]_vars

(* every other participant writes messages of 1 .. MaxMsgLen bytes to rank 0,
   which reads them in pieces of 1 .. MaxMsgLen bytes; nobody shuts down *)
RingInit ==
    /\ sd_setup(RingProcs, [c \in 0 .. (RingProcs - 1) |-> c],
                [c \in 0 .. (RingProcs - 1) |->
                    IF c = 0 THEN Calls(0, 0, MaxReads, 0, {}, 1 .. MaxMsgLen)
                    ELSE Calls(0, MaxWrites, 0, 0, {0}, 1 .. MaxMsgLen)])
    /\ NetIdle

RingNext ==
    \/ \E p \in Callers : WriteCall(p) /\ UNCHANGED netvars
    \/ \E p \in Callers : WriteLock(p) /\ UNCHANGED netvars
    \/ \E p \in Callers : WriteCheck(p) /\ UNCHANGED netvars
    \/ \E p \in Callers : WriteToken(p) /\ UNCHANGED netvars
    \/ \E p \in Callers : WriteLoop(p) /\ UNCHANGED netvars
    \/ \E p \in Callers : WriteWake(p) /\ UNCHANGED netvars
    \/ \E p \in Callers : WriteRetest(p) /\ UNCHANGED netvars
    \/ \E p \in Callers : ReadCall(p) /\ UNCHANGED netvars
    \/ \E p \in Callers : ReadLock(p) /\ UNCHANGED netvars
    \/ \E p \in Callers : ReadCheck(p) /\ UNCHANGED netvars
    \/ \E p \in Callers : ReadToken(p) /\ UNCHANGED netvars
    \/ \E p \in Callers : ReadLoop(p) /\ UNCHANGED netvars
    \/ \E p \in Callers : ReadWake(p) /\ UNCHANGED netvars
    \/ \E p \in Callers : ReadRetest(p) /\ UNCHANGED netvars
    \/ \E p \in Callers : SpuriousWakeup(p) /\ UNCHANGED netvars

RingSpec == RingInit /\ [][RingNext]_vars

(* the creator shuts the domain down while every other caller makes one call:
   sd_barrier, an sd_write of MaxMsgLen bytes to rank 1, or an sd_read of
   MaxMsgLen bytes; the callers are interchangeable threads of participant 1,
   so their calls are drawn up to the order of the callers *)
ShutdownRank == [c \in 0 .. ShutCallers |-> IF c = 0 THEN 0 ELSE 1]

OpOrder == [barrier |-> 1, write |-> 2, read |-> 3]

ShutdownInit ==
    \E op \in [1 .. ShutCallers -> {"barrier", "write", "read"}] :
        /\ \A c \in 1 .. ShutCallers - 1 : OpOrder[op[c]] <= OpOrder[op[c + 1]]
        /\ sd_setup(ShutProcs, ShutdownRank,
                 [c \in 0 .. ShutCallers |->
                     IF c = 0 THEN Calls(0, 0, 0, 1, {}, {})
                     ELSE Calls(IF op[c] = "barrier" THEN 1 ELSE 0,
                                IF op[c] = "write" THEN 1 ELSE 0,
                                IF op[c] = "read" THEN 1 ELSE 0,
                                0, {1}, {MaxMsgLen})])
        /\ NetIdle

CallerStep(p) ==
    /\ \/ BarrierCall(p) \/ BarrierLock(p) \/ BarrierCheck(p) \/ BarrierSync(p)
       \/ BarrierWake(p) \/ BarrierRetest(p)
       \/ WriteCall(p) \/ WriteLock(p) \/ WriteCheck(p) \/ WriteToken(p)
       \/ WriteLoop(p) \/ WriteWake(p) \/ WriteRetest(p)
       \/ ReadCall(p) \/ ReadLock(p) \/ ReadCheck(p) \/ ReadToken(p)
       \/ ReadLoop(p) \/ ReadWake(p) \/ ReadRetest(p)
       \/ ShutdownCall(p) \/ ShutdownHeader(p) \/ ShutdownBuffer(p)
    /\ UNCHANGED netvars

ShutdownNext ==
    \/ \E p \in Callers : BarrierCall(p) /\ UNCHANGED netvars
    \/ \E p \in Callers : BarrierLock(p) /\ UNCHANGED netvars
    \/ \E p \in Callers : BarrierCheck(p) /\ UNCHANGED netvars
    \/ \E p \in Callers : BarrierSync(p) /\ UNCHANGED netvars
    \/ \E p \in Callers : BarrierWake(p) /\ UNCHANGED netvars
    \/ \E p \in Callers : BarrierRetest(p) /\ UNCHANGED netvars
    \/ \E p \in Callers : WriteCall(p) /\ UNCHANGED netvars
    \/ \E p \in Callers : WriteLock(p) /\ UNCHANGED netvars
    \/ \E p \in Callers : WriteCheck(p) /\ UNCHANGED netvars
    \/ \E p \in Callers : WriteToken(p) /\ UNCHANGED netvars
    \/ \E p \in Callers : WriteLoop(p) /\ UNCHANGED netvars
    \/ \E p \in Callers : WriteWake(p) /\ UNCHANGED netvars
    \/ \E p \in Callers : WriteRetest(p) /\ UNCHANGED netvars
    \/ \E p \in Callers : ReadCall(p) /\ UNCHANGED netvars
    \/ \E p \in Callers : ReadLock(p) /\ UNCHANGED netvars
    \/ \E p \in Callers : ReadCheck(p) /\ UNCHANGED netvars
    \/ \E p \in Callers : ReadToken(p) /\ UNCHANGED netvars
    \/ \E p \in Callers : ReadLoop(p) /\ UNCHANGED netvars
    \/ \E p \in Callers : ReadWake(p) /\ UNCHANGED netvars
    \/ \E p \in Callers : ReadRetest(p) /\ UNCHANGED netvars
    \/ \E p \in Callers : ShutdownCall(p) /\ UNCHANGED netvars
    \/ \E p \in Callers : ShutdownHeader(p) /\ UNCHANGED netvars
    \/ \E p \in Callers : ShutdownBuffer(p) /\ UNCHANGED netvars
    \/ \E p \in Callers : SpuriousWakeup(p) /\ UNCHANGED netvars

(* every caller that can take a step eventually takes one; a spurious wake-up
   is never bound to happen *)
ShutdownSpec ==
    /\ ShutdownInit
    /\ [][ShutdownNext]_vars
    /\ \A p \in 0 .. ShutCallers : WF_vars(CallerStep(p))

(* the flow of one message per sender to rank 0, whose reads may or may not
   add up to the bytes written; a caller that can take a step again and again
   eventually takes one (a mutex is not withheld from it for ever); a spurious
   wake-up is never bound to happen *)
FlowInit ==
    /\ sd_setup(RingProcs, [c \in 0 .. (RingProcs - 1) |-> c],
                [c \in 0 .. (RingProcs - 1) |->
                    IF c = 0 THEN Calls(0, 0, MaxReads, 0, {}, 1 .. MaxMsgLen)
                    ELSE Calls(0, 1, 0, 0, {0}, 1 .. MaxMsgLen)])
    /\ NetIdle

FlowSpec ==
    /\ FlowInit
    /\ [][RingNext]_vars
    /\ \A p \in 0 .. (RingProcs - 1) : SF_vars(CallerStep(p))

(* the creator shuts the domain down; a thread of participant 1 calls
   sd_barrier, sd_write and sd_read at any time, before, during or after the
   shutdown, with 0 .. MaxMsgLen bytes and to every rank, valid or not *)
AfterInit ==
    /\ sd_setup(ShutProcs, [c \in 0 .. 1 |-> c],
                [c \in 0 .. 1 |->
                    IF c = 0 THEN Calls(0, 0, 0, 1, {}, {})
                    ELSE Calls(1, MaxWrites, MaxReads, 0, 0 .. ShutProcs, 0 .. MaxMsgLen)])
    /\ NetIdle

AfterSpec ==
    /\ AfterInit
    /\ [][ShutdownNext]_vars
    /\ \A p \in 0 .. 1 : WF_vars(CallerStep(p))

(* processes with any signal masks lock, wait on a condition variable of, and
   unlock one shared mutex, created with any signal set or with none *)
MutexInit ==
    /\ sd_setup(1, <<>>, <<>>)
    /\ mpx_init("raw", 0)
    /\ udp_init(1, 0)
    /\ ScanIdle
    /\ SbIdle
    /\ DomIdle
    /\ \E sigmask \in {<<set>> : set \in SUBSET Signals} \cup {NoSigmask},
          masks \in [MxThreads -> SUBSET Signals] :
          shared_mutex_create_with_sigmask(sigmask, masks)

MutexNext ==
    \/ \E p \in MxThreads : MutexBlock(p) /\ UNCHANGED <<sdvars, tcpvars, udpvars, scan, sbuf, dom>>
    \/ \E p \in MxThreads : MutexLock(p) /\ UNCHANGED <<sdvars, tcpvars, udpvars, scan, sbuf, dom>>
    \/ \E p \in MxThreads : MutexUnlock(p) /\ UNCHANGED <<sdvars, tcpvars, udpvars, scan, sbuf, dom>>
    \/ \E p \in MxThreads : MutexRestore(p) /\ UNCHANGED <<sdvars, tcpvars, udpvars, scan, sbuf, dom>>
    \/ \E p \in MxThreads : CvWait(p) /\ UNCHANGED <<sdvars, tcpvars, udpvars, scan, sbuf, dom>>
    \/ \E p \in MxThreads : CvWake(p) /\ UNCHANGED <<sdvars, tcpvars, udpvars, scan, sbuf, dom>>

MutexSpec == MutexInit /\ [][MutexNext]_vars

(* one burst of up to MaxBurst bytes arrives at a session whose request
   handler scans every request *)
ScanInit ==
    /\ sd_setup(1, <<>>, <<>>)
    /\ mpx_init("raw", 0)
    /\ udp_init(1, 0)
    /\ MxIdle
    /\ SbIdle
    /\ DomIdle
    /\ \E burst \in Bursts : scan_init(burst)

ScanNext ==
    \/ ScanRequest /\ UNCHANGED <<sdvars, tcpvars, udpvars, mxvars, sbuf, dom>>
    \/ ScanReturn /\ UNCHANGED <<sdvars, tcpvars, udpvars, mxvars, sbuf, dom>>

ScanSpec == ScanInit /\ [][ScanNext]_vars

(* a service whose framing regex is a*, which matches the empty string *)
StarInit ==
    /\ sd_setup(1, <<>>, <<>>)
    /\ mpx_init("raw", 0)
    /\ udp_init(1, 0)
    /\ MxIdle
    /\ SbIdle
    /\ DomIdle
    /\ \E burst \in Bursts : scan_regex_init("a*", burst)

StarSpec == StarInit /\ [][ScanNext]_vars

(* sliding_buffer_ready is called for a sliding buffer in any state with
   offset <= sa.len, the empty buffer without memory among them, and with a
   minspace of up to MaxMinspace bytes around what is free *)
SbInit ==
    /\ sd_setup(1, <<>>, <<>>)
    /\ mpx_init("raw", 0)
    /\ udp_init(1, 0)
    /\ MxIdle
    /\ ScanIdle
    /\ DomIdle
    /\ \E offset \in SbOffsets, unread \in SbUnread, free \in 0 .. MaxFree,
          minspace \in 0 .. MaxMinspace :
          sb_init(SbBuffer(offset, unread, free), minspace)

SbNext ==
    \/ SbReady /\ UNCHANGED <<sdvars, tcpvars, udpvars, mxvars, scan, dom>>

SbSpec == SbInit /\ [][SbNext]_vars

(* sd_setup_with_extra_space is called for 1 .. MaxSetupProcs processes, and
   every system call and every creation of a mutex or condition variable in
   it may fail *)
SetupInit ==
    /\ sd_setup(1, <<>>, <<>>)
    /\ mpx_init("raw", 0)
    /\ udp_init(1, 0)
    /\ MxIdle
    /\ ScanIdle
    /\ SbIdle
    /\ \E nofprocesses \in 1 .. MaxSetupProcs : setup_call(nofprocesses)

SetupNext ==
    \/ SetupOpen /\ UNCHANGED <<sdvars, tcpvars, udpvars, mxvars, scan, sbuf>>
    \/ SetupHeader /\ UNCHANGED <<sdvars, tcpvars, udpvars, mxvars, scan, sbuf>>
    \/ SetupBuffer /\ UNCHANGED <<sdvars, tcpvars, udpvars, mxvars, scan, sbuf>>
    \/ SetupUndo /\ UNCHANGED <<sdvars, tcpvars, udpvars, mxvars, scan, sbuf>>
    \/ SetupFreeHeader /\ UNCHANGED <<sdvars, tcpvars, udpvars, mxvars, scan, sbuf>>
    \/ SetupFail /\ UNCHANGED <<sdvars, tcpvars, udpvars, mxvars, scan, sbuf>>
    \/ SetupReturn /\ UNCHANGED <<sdvars, tcpvars, udpvars, mxvars, scan, sbuf>>

SetupSpec == SetupInit /\ [][SetupNext]_vars

(* the communication domain while the model runs a network service *)
SdIdle == sd_setup(1, <<>>, <<>>) /\ MxIdle /\ ScanIdle /\ SbIdle /\ DomIdle

(* run_multiplexor with handlers of the application *)
MpxInit == SdIdle /\ mpx_init("raw", MaxConns) /\ udp_init(1, 0)

MpxNext ==
    \/ MpxSetup
    \/ MpxSetupFails
    \/ MpxPoll
    \/ MpxPollFails
    \/ MpxContinue
    \/ MpxAcceptFails
    \/ MpxAccept
    \/ MpxInput
    \/ MpxWrite

MpxSpec == MpxInit /\ [][MpxNext]_vars

(* one client of a service whose process handles signals, so that read() and
   poll() may fail with EINTR *)
SignalInit == SdIdle /\ mpx_init("signals", 1) /\ udp_init(1, 0)

SignalSpec == SignalInit /\ [][MpxNext]_vars

(* a service whose handlers may close the connections of other clients *)
ChatInit == SdIdle /\ mpx_init("chat", MaxConns) /\ udp_init(1, 0)

ChatSpec == ChatInit /\ [][MpxNext]_vars

(* run_mpx_service: run_multiplexor with the handlers of the session layer *)
SessionInit == SdIdle /\ mpx_init("session", MaxSessions) /\ udp_init(1, 0)

SessionNext ==
    \/ MpxSetup
    \/ MpxSetupFails
    \/ MpxPoll
    \/ MpxPollFails
    \/ MpxContinue
    \/ MpxAcceptFails
    \/ SessionAccept
    \/ SessionInput
    \/ MpxWrite

SessionSpec == SessionInit /\ [][SessionNext]_vars

(* run_udp_service with handlers of the application and max_retries of
   1 .. MaxRetries *)
UdpInit ==
    /\ SdIdle
    /\ mpx_init("raw", 0)
    /\ \E max_retries \in 1 .. MaxRetries : udp_init(max_retries, MaxLinks)

UdpNext ==
    \/ UdpSetup
    \/ UdpPoll
    \/ UdpPollFails
    \/ UdpPollTimeout
    \/ UdpContinue
    \/ UdpAccept
    \/ UdpInput
    \/ UdpWrite

UdpSpec == UdpInit /\ [][UdpNext]_vars

(* a service whose handlers may write to and close the links of other peers *)
UdpChatInit ==
    /\ SdIdle
    /\ mpx_init("raw", 0)
    /\ \E max_retries \in 1 .. MaxRetries : udp_service_init("chat", max_retries, MaxLinks)

UdpChatSpec == UdpChatInit /\ [][UdpNext]_vars

(***************************************************************************)
(* Claims about sd_barrier (BarrierSpec).                                  *)
(***************************************************************************)

(* C1: with every participant calling sd_barrier once per round and no
   shutdown, no interleaving leaves all participants waiting forever.  In a
   state in which every participant is waiting on wait_for_barrier nobody is
   left to count sync_count down to 0: a waiter that wakes up finds
   sync_count > 0 and waits again, so no call ever returns. *)
C1_NoBarrierDeadlock ==
    ~(\A p \in Callers : pc[p] = "b_wait" /\ p \in header.wait_for_barrier)

(* C10: no sd_barrier call returns true before all participants have entered
   sd_barrier for that round: when the k-th call of a participant has returned
   true, every participant has counted itself in k times. *)
C10_BarrierWaitsForAll ==
    \A p \in Callers : \A k \in 1 .. Len(ret[p]) :
        ret[p][k].val => \A q \in Callers : entered[q] >= k

(* a participant has been released from the second round *)
C10_Witness == \E p \in Callers : Len(ret[p]) >= 2 /\ ret[p][2].val

(***************************************************************************)
(* Claims about sd_write and sd_read (RingSpec).                           *)
(***************************************************************************)
MsgOf(byte) == <<byte[1], byte[2]>>

(* C2: the bytes of each successfully written message reach the reader as
   one contiguous block, never interleaved with the bytes of another message,
   also when the message is longer than the ring. *)
C2_NoInterleaving ==
    \A r \in Ranks : \A i, k \in 1 .. Len(stream[r]) :
        (i < k /\ MsgOf(stream[r][i]) = MsgOf(stream[r][k])
               /\ MsgOf(stream[r][i]) \in completed)
        => \A j \in i .. k : MsgOf(stream[r][j]) = MsgOf(stream[r][i])

(* two senders have each completed a message longer than the ring, and the
   reader has received the last byte of both *)
C2_Witness ==
    \E r \in Ranks : \E i, k \in 1 .. Len(stream[r]) :
        /\ stream[r][i][1] # stream[r][k][1]
        /\ stream[r][i][3] > BufSize /\ stream[r][k][3] > BufSize
        /\ MsgOf(stream[r][i]) \in completed /\ MsgOf(stream[r][k]) \in completed

(* C9: the messages of one sender to one recipient are delivered in the order
   of the sd_write calls, the bytes of each message in their original order
   (and none of them twice), whatever other senders write and however often
   the ring wraps. *)
C9_FifoPerSender ==
    \A r \in Ranks : \A i, j \in 1 .. Len(stream[r]) :
        (i < j /\ stream[r][i][1] = stream[r][j][1])
        => \/ stream[r][i][2] < stream[r][j][2]
           \/ /\ stream[r][i][2] = stream[r][j][2]
              /\ stream[r][i][3] + (j - i) >= stream[r][j][3]
              /\ stream[r][i][3] < stream[r][j][3]

(* the reader has received bytes of the first and of the second message of one
   sender, and the first message was longer than the ring *)
C9_Witness ==
    \E r \in Ranks : \E i, j \in 1 .. Len(stream[r]) :
        /\ stream[r][i][1] = stream[r][j][1]
        /\ stream[r][i][2] = 1 /\ stream[r][i][3] > BufSize
        /\ stream[r][j][2] = 2

(***************************************************************************)
(* Claims about sd_shutdown (ShutdownSpec).                                *)
(***************************************************************************)

(* C3: every caller that is blocked inside sd_write, sd_read or sd_barrier
   when the creator sets the terminating flag eventually returns false: no
   wake-up is lost.  (A blocked caller that returned true would stay "true"
   for ever.) *)
C3_ShutdownWakesAll ==
    \A p \in 1 .. ShutCallers :
        (atShutdown[p] = "blocked") ~> (atShutdown[p] = "false")

(* callers that were blocked in sd_write, in sd_read and in sd_barrier when the
   flag was set have all returned false *)
C3_Witness ==
    \E w, r, b \in Callers :
        /\ atShutdown[w] = "false" /\ atShutdown[r] = "false" /\ atShutdown[b] = "false"
        /\ ret[w] # <<>> /\ ret[w][1].op = "write"
        /\ ret[r] # <<>> /\ ret[r][1].op = "read"
        /\ ret[b] # <<>> /\ ret[b][1].op = "barrier"

(***************************************************************************)
(* Claims about run_multiplexor (MpxSpec) and the session layer            *)
(* (SessionSpec).                                                          *)
(***************************************************************************)
Accepted(c) == conn[c].alive # "unborn"

Linked(c) == \E i \in 1 .. Len(mpx.links) : mpx.links[i] = c

IsPrefix(a, b) == Len(a) <= Len(b) /\ \A i \in 1 .. Len(a) : a[i] = b[i]

(* C4: for every accepted connection the close handler is called at most
   once, and exactly once when the connection has left the list; no open or
   input handler is called after it; the descriptor is closed at most once. *)
C4_CloseHandlerOnce ==
    \A c \in Conns :
        /\ obs.chandler[c] <= 1
        /\ obs.closes[c] <= 1
        /\ c \notin obs.late
        /\ (Accepted(c) /\ ~Linked(c)) => (obs.chandler[c] = 1 /\ obs.closes[c] = 1)
        /\ Linked(c) => obs.chandler[c] = 0

(* one connection was destroyed after EOF or close_link with output written,
   another one by a failing write *)
C4_Witness ==
    \E c, d \in Conns :
        /\ conn[c].alive = "freed" /\ conn[c].eof /\ obs.wire[c] # <<>>
        /\ conn[d].alive = "freed" /\ ~conn[d].eof
        /\ obs.chandler[c] = 1 /\ obs.chandler[d] = 1

(* C5: once the session close handler has run and the session record is
   released, the request handler is not called for the session and neither
   the session record nor its link is accessed again. *)
C5_SessionCloseIsLast ==
    /\ obs.stale = {}
    /\ obs.lateRequest = {}
    /\ obs.staleLink = {}

(* C7: a buffer write_to_link took is freed at most once, and it has been
   freed once its connection is destroyed. *)
C7_BuffersFreedOnce ==
    \A b \in Bufs :
        /\ obs.frees[b] <= 1
        /\ (obs.owner[b] # 0 /\ conn[obs.owner[b]].alive = "freed") => obs.frees[b] = 1

(* C8: the bytes written to a descriptor are a prefix of the bytes of the
   buffers queued for its connection, in the order of the write_to_link calls. *)
C8_WirePrefix ==
    \A c \in Conns : IsPrefix(obs.wire[c], obs.queued[c])

(* a segment is partly written, after another segment of the connection *)
C8_Witness ==
    \E c \in Conns :
        /\ conn[c].oq # <<>>
        /\ conn[c].oq[1].pos > 0
        /\ Len(obs.wire[c]) > conn[c].oq[1].pos

(***************************************************************************)
(* Claims about run_udp_service (UdpSpec).                                 *)
(***************************************************************************)

(* C6: when poll has run into its timeout while the last packet of an open
   link waits for its acknowledgement, the next poll asks to send the packet
   again (POLLOUT), unless the packet has been sent max_retries times and the
   link is gone; and no packet is sent more than max_retries times. *)
C6_ResendAfterTimeout ==
    \A c \in Links :
        /\ (udp.pc = "poll" /\ c \in uobs.timedout) =>
              \/ ulink[c].alive = "freed"
              \/ \E i \in 1 .. Len(udp.pollfds) :
                    udp.pollfds[i].link = c /\ POLLOUT \in udp.pollfds[i].events
        /\ \A b \in Packets :
              Len(SelectSeq(uobs.sent[c], LAMBDA x : x = b)) <= udp.max_retries

(***************************************************************************)
(* Claims about the flow through a mailbox (FlowSpec).                     *)
(***************************************************************************)
InWrite(p) == pc[p] \in {"w_lock", "w_check", "w_token", "w_loop", "w_wait_alone",
                         "w_wait_space", "w_woken_alone", "w_woken_space"}

InRead(p) == pc[p] \in {"r_lock", "r_check", "r_token", "r_loop", "r_wait_alone",
                        "r_wait_data", "r_woken_alone", "r_woken_data"}

(* the callers of rank r have made all their sd_read calls *)
ReadersDone(r) ==
    \A q \in Callers : sd[q].rank = r => (pc[q] = "idle" /\ calls[q].read = limit[q].read)

(* the callers that write to rank r have made all their sd_write calls *)
WritersDone(r) ==
    \A q \in Callers : r \in limit[q].to => (pc[q] = "idle" /\ calls[q].write = limit[q].write)

(* C11: without shutdown no call returns false; an sd_write in progress
   returns unless the recipient has stopped reading, and an sd_read in progress
   returns unless the senders have stopped writing. *)
C11_TransfersComplete ==
    /\ [](\A p \in Callers : \A k \in 1 .. Len(ret[p]) : ret[p][k].val)
    /\ \A p \in 0 .. (RingProcs - 1) :
          /\ InWrite(p) ~> (pc[p] = "idle" \/ ReadersDone(local[p].recipient))
          /\ InRead(p) ~> (pc[p] = "idle" \/ WritersDone(local[p].recipient))

(* two senders have completed messages longer than the ring, all read *)
C11_Witness ==
    \E p, q \in Callers :
        /\ p # q
        /\ <<p, 1>> \in completed /\ <<q, 1>> \in completed
        /\ \E i \in 1 .. Len(stream[0]) : stream[0][i] = <<p, 1, BufSize + 1>>
        /\ \E i \in 1 .. Len(stream[0]) : stream[0][i] = <<q, 1, BufSize + 1>>
        /\ \A c \in Callers : pc[c] = "idle"

(* sd_shutdown has returned true to the creator *)
ShutdownDone ==
    \E p \in Callers : \E k \in 1 .. Len(ret[p]) :
        ret[p][k].op = "shutdown" /\ ret[p][k].val

(***************************************************************************)
(* C12: once sd_shutdown has returned true, sd_terminating is true in      *)
(* every participant, and every call of sd_barrier, sd_write or sd_read    *)
(* that starts from then on returns at once (it never takes a mutex or     *)
(* waits) and returns false, for every recipient rank and every byte       *)
(* count, 0 included.                                                      *)
(***************************************************************************)
C12_CallsAfterShutdownFail ==
    [][ShutdownDone =>
          \A p \in Callers :
              /\ sd_terminating(p)
              /\ pc[p] = "idle" =>
                    /\ pc'[p] = "idle"
                    /\ Len(ret'[p]) > Len(ret[p]) => ~ret'[p][Len(ret'[p])].val]_vars

(***************************************************************************)
(* C13: for a shared mutex created with a signal mask, whenever a thread   *)
(* has returned from shared_mutex_unlock its signal mask is the mask it    *)
(* had immediately before the matching shared_mutex_lock, whatever the     *)
(* other processes, with other masks, lock, wait for and unlock meanwhile. *)
(***************************************************************************)
C13_MaskRestored ==
    sm.block_signals =>
        \A p \in DOMAIN thread :
            (thread[p].pc = "idle" /\ thread[p].unlocks > 0) =>
                thread[p].sigmask = thread[p].before

(* the bytes group i of (a)?(b)?n captured in a request, <<>> when the group did
   not participate; read off the request, which is n, an, bn or abn *)
Captured(request, i) ==
    LET letter == IF i = 1 THEN "a" ELSE "b"
    IN  IF \E k \in 1 .. Len(request) : request[k] = letter THEN <<letter>> ELSE <<>>

(***************************************************************************)
(* C14: for every request handed to the request handler, the first as well *)
(* as the later ones of a burst, mpx_session_scan (when its allocations    *)
(* succeed) returns the capture count and stores, for every group up to    *)
(* that count, the captured bytes if the group participated and a          *)
(* zero-length value if it did not.                                        *)
(***************************************************************************)
C14_ScanCaptures ==
    \A k \in 1 .. Len(scan.calls) :
        LET call == scan.calls[k]
        IN  call.ok =>
               /\ ~call.returned.aborted
               /\ call.returned.count = call.count
               /\ \A i \in 1 .. call.count :
                     /\ call.returned.sa[i].s = Captured(call.request, i)
                     /\ call.returned.sa[i].len = Len(Captured(call.request, i))

(* the complete frames of a stream for the framing regex a*n, whose matches
   end in the terminator n: the frames in front of the first byte that
   belongs to no frame *)
RECURSIVE CompleteFrames(_)
CompleteFrames(bytes) ==
    LET ends == {k \in 1 .. Len(bytes) : bytes[k] # "a"}
        k == CHOOSE e \in ends : \A f \in ends : e <= f
    IN  IF ends = {} THEN <<>>
        ELSE IF bytes[k] = "n"
        THEN <<SubSeq(bytes, 1, k)>> \o CompleteFrames(SubSeq(bytes, k + 1, Len(bytes)))
        ELSE <<>>

C17_NoRequestAfterClose == obs.afterClose = {}

(***************************************************************************)
(* C18: whenever run_multiplexor has returned, by whichever path, the      *)
(* disposition of SIGPIPE is the one that was installed before the call.   *)
(***************************************************************************)
C18_SigpipeRestored ==
    mpx.pc = "returned" => mpx.sigpipe = mpx.old_sigact

(***************************************************************************)
(* C16: after close_link(conn), whichever handler called it and whatever   *)
(* the current poll result holds for conn, the input handler is not        *)
(* invoked again for conn; and when conn is destroyed without its peer     *)
(* having refused a write, every byte queued for it has been written.      *)
(***************************************************************************)
C16_ClosedLinkDrains ==
    /\ obs.inputAfterClose = {}
    /\ \A c \in obs.lclosed :
          (conn[c].alive = "freed" /\ c \notin obs.refused) => obs.wire[c] = obs.queued[c]

(***************************************************************************)
(* C19: a packet that was the head of the queue of a link, sent at least   *)
(* once, when a datagram arrived on the link is no longer queued when the  *)
(* input handler is invoked for the datagram, is never queued again and is *)
(* never sent again.                                                       *)
(***************************************************************************)
C19_AckedHeadIsGone ==
    /\ uobs.unacked = {}
    /\ \A a \in uobs.acked : \A c \in Links :
          /\ \A i \in 1 .. Len(ulink[c].oq) : ulink[c].oq[i].buf # a.buf
          /\ uobs.owner[a.buf] = c => Sends(UdpWorld, c, a.buf) = a.sends

(* a packet was sent and confirmed by a datagram, and the link has sent the
   next packet since *)
C19_Witness ==
    \E a \in uobs.acked :
        LET c == uobs.owner[a.buf]
        IN  /\ a.sends > 0
            /\ c \in Links
            /\ \E k \in 1 .. Len(uobs.sent[c]) : uobs.sent[c][k] # a.buf
            /\ uobs.sent[c][1] = a.buf

(* the head of the queue of a linked connection has been sent max_retries times *)
Exhausted(c) ==
    /\ ulink[c].alive = "linked"
    /\ ulink[c].oq # <<>>
    /\ ulink[c].oq[1].attempts >= udp.max_retries

(***************************************************************************)
(* C20: every queued segment has 0 <= timeouts <= attempts <= max_retries; *)
(* while the head of a link has reached max_retries attempts nothing is    *)
(* sent on the link, and the setup_polls at the start of the next loop     *)
(* iteration discards the whole queue and marks the link closed.           *)
(***************************************************************************)
C20_RetriesBounded ==
    /\ [](\A c \in Links : \A i \in 1 .. Len(ulink[c].oq) :
             /\ 0 <= ulink[c].oq[i].timeouts
             /\ ulink[c].oq[i].timeouts <= ulink[c].oq[i].attempts
             /\ ulink[c].oq[i].attempts <= udp.max_retries)
    /\ [][\A c \in Links :
             Exhausted(c) =>
                /\ uobs'.sent[c] = uobs.sent[c]
                /\ udp.pc = "setup" => (ulink'[c].oq = <<>> /\ ulink'[c].closed)]_vars

(* a link whose only packet was sent max_retries times has been given up and
   destroyed by setup_polls *)
C20_Witness ==
    \E c \in uobs.expired :
        /\ ulink[c].oq = <<>> /\ ulink[c].closed
        /\ Len(uobs.sent[c]) = udp.max_retries
        /\ uobs.chandler[c] = 1

(* C21: once close_udp_link has been called for a link, also while a POLLIN of
   the link is pending in the current poll result, the input handler is not
   invoked for the link again and no packet that is still queued is sent more
   than once *)
C21_NoInputAfterClose ==
    /\ uobs.inputAfterClose = {}
    /\ \A c \in Links, b \in Packets :
          Len(SelectSeq(uobs.lateSends[c], LAMBDA x : x = b)) <= 1

(* the packet b is in the output queue of the link c *)
UdpQueued(c, b) == \E i \in 1 .. Len(ulink[c].oq) : ulink[c].oq[i].buf = b

(* C22: a packet that had a successor in the output queue when it was sent has
   been sent exactly once and is dropped from the queue; so a packet sent more
   than once was the last of the queue every time, also when its successor
   was queued while it waited for its acknowledgement *)
C22_SuccessorSentOnce ==
    \A b \in Packets :
        LET c == uobs.owner[b]
        IN  c # 0 =>
               /\ b \in uobs.succ => Sends(UdpWorld, c, b) = 1 /\ ~UdpQueued(c, b)
               /\ Sends(UdpWorld, c, b) > 1 => b \notin uobs.succ

(* one packet was sent ahead of a successor, and another got its successor
   while it waited for the acknowledgement and has left the queue *)
C22_Witness ==
    /\ \E b \in uobs.succ : Sends(UdpWorld, uobs.owner[b], b) = 1
    /\ \E b \in uobs.overtaken :
          /\ Sends(UdpWorld, uobs.owner[b], b) = 1
          /\ ~UdpQueued(uobs.owner[b], b)
          /\ ulink[uobs.owner[b]].alive = "linked"

(* C23: every buffer write_to_udp_link has accepted is released exactly once,
   at the latest when its packet has left the output queue *)
C23_BufferReleasedOnce ==
    \A b \in Packets :
        /\ uobs.freed[b] <= 1
        /\ (uobs.owner[b] # 0 /\ ~UdpQueued(uobs.owner[b], b)) => uobs.freed[b] = 1

(* C24: for every UDP link the close handler is called at most once, no open
   or input handler is called after it, and the link is not accessed once it
   has been freed, also when the first read fails inside the open handler and
   when a send fails *)
C24_LinkNotUsedAfterFree ==
    \A c \in Links :
        /\ uobs.chandler[c] <= 1
        /\ c \notin uobs.late
        /\ c \notin uobs.staleLink

(* C25: a TCP connection is destroyed only with its eof flag set and its
   output queue empty (remove_link leaves both as they were) *)
C25_DestroyedWhenDrained ==
    \A c \in Conns : conn[c].alive = "freed" => conn[c].eof /\ conn[c].oq = <<>>

(* C26: a read() inside read_from_link that is interrupted by a signal neither
   sets eof nor destroys the connection, and an interrupted poll() does not
   make run_multiplexor return *)
C26_InterruptedCallsRetried ==
    [][/\ \A c \in Conns :
             (c \in obs'.eintr /\ c \notin obs.eintr) =>
                 conn'[c].eof = conn[c].eof /\ conn'[c].alive = conn[c].alive
       /\ (obs'.pollEintr /\ ~obs.pollEintr) => mpx'.pc # "returned"]_vars

(* C27: an sd_write whose recipient is not a rank of the domain returns false,
   whatever the number of bytes (0 included), and leaves every mailbox as it
   was *)
C27_BadRecipientRefused ==
    [][\A p \in Callers :
          (/\ calls'[p].write > calls[p].write
           /\ local'[p].recipient >= sd[p].nofprocesses) =>
              /\ Len(ret'[p]) = Len(ret[p]) + 1
              /\ ~ret'[p][Len(ret'[p])].val
              /\ buffer' = buffer]_vars

(* the unread bytes sa.s[offset .. sa.len) of a sliding buffer *)
SbUnreadBytes(b) == SubSeq(b.sa.s, b.offset + 1, b.sa.len)

(* C28: when sliding_buffer_ready(buffer, minspace) has returned true,
   sa.a - sa.len >= minspace and offset <= sa.len hold and the unread bytes
   are the ones of before, whatever the buffer was like *)
C28_ReadyKeepsUnread ==
    (sbuf.pc = "returned" /\ sbuf.ok) =>
        /\ sbuf.buffer.sa.a - sbuf.buffer.sa.len >= sbuf.minspace
        /\ sbuf.buffer.offset <= sbuf.buffer.sa.len
        /\ sbuf.buffer.sa.len = Len(sbuf.buffer.sa.s)
        /\ SbUnreadBytes(sbuf.buffer) = SbUnreadBytes(sbuf.before)

(* the call made room by moving more than THRESHOLD unread bytes to the front
   of the memory it had *)
C28_Witness ==
    /\ sbuf.pc = "returned" /\ sbuf.ok
    /\ sbuf.minspace > 0
    /\ sbuf.before.offset > 0 /\ sbuf.buffer.offset = 0
    /\ sbuf.buffer.sa.len > THRESHOLD
    /\ sbuf.buffer.sa.a = sbuf.before.sa.a

(* C29: in every mailbox 0 <= filled <= bufsize, read_index and write_index
   are in [0, bufsize) and write_index = (read_index + filled) mod bufsize,
   whatever sd_write and sd_read calls have run, completed or aborted *)
C29_RingIndices ==
    \A r \in Ranks :
        /\ buffer[r].filled >= 0 /\ buffer[r].filled <= header.bufsize
        /\ buffer[r].read_index >= 0 /\ buffer[r].read_index < header.bufsize
        /\ buffer[r].write_index >= 0 /\ buffer[r].write_index < header.bufsize
        /\ buffer[r].write_index = (buffer[r].read_index + buffer[r].filled) % header.bufsize

(* the shutdown has aborted a write that had filled the ring, whose indices
   have wrapped around *)
C29_Witness ==
    /\ header.terminating
    /\ \E r \in Ranks :
          /\ buffer[r].filled = header.bufsize
          /\ buffer[r].read_index > 0
          /\ buffer[r].write_index = buffer[r].read_index
    /\ \E p \in Callers : \E k \in 1 .. Len(ret[p]) :
          ret[p][k].op = "write" /\ ~ret[p][k].val

(* the callers that hold the writing or the reading token of the mailbox r *)
WriteHolders(r) ==
    {p \in Callers : local[p].recipient = r
                     /\ pc[p] \in {"w_loop", "w_wait_space", "w_woken_space"}}

ReadHolders(r) ==
    {p \in Callers : local[p].recipient = r
                     /\ pc[p] \in {"r_loop", "r_wait_data", "r_woken_data"}}

(* C30: at most one caller holds the writing token of a mailbox and at most
   one the reading token; a caller that finds the token taken waits on
   ready_for_writing_alone or ready_for_reading_alone *)
C30_TokensExclusive ==
    /\ [](\A r \in Ranks :
             /\ Cardinality(WriteHolders(r)) <= 1
             /\ Cardinality(ReadHolders(r)) <= 1)
    /\ [][\A p \in Callers :
             /\ (pc[p] = "w_token" /\ pc'[p] # "w_token") =>
                   pc'[p] = IF WriteHolders(local[p].recipient) # {}
                            THEN "w_wait_alone" ELSE "w_loop"
             /\ (pc[p] = "r_token" /\ pc'[p] # "r_token") =>
                   pc'[p] = IF ReadHolders(local[p].recipient) # {}
                            THEN "r_wait_alone" ELSE "r_loop"]_vars

(* a reader holds the reading token while another reader of the same mailbox
   waits for it *)
C30_Witness ==
    \E r \in Ranks : \E p, q \in Callers :
        /\ p \in ReadHolders(r)
        /\ pc[q] = "r_wait_alone" /\ local[q].recipient = r
        /\ q \in buffer[r].ready_for_reading_alone

(* C31: when poll has run into its timeout, every open link whose first packet
   has been sent and not confirmed (timeouts < attempts) gets the timeouts of
   that packet incremented, so that the packet is sent again *)
C31_TimeoutCounted ==
    [][(udp.pc = "poll" /\ udp'.pc = "setup") =>
          \A c \in Links :
              (/\ ulink[c].alive = "linked" /\ ~ulink[c].closed
               /\ ulink[c].oq # <<>>
               /\ ulink[c].oq[1].timeouts < ulink[c].oq[1].attempts) =>
                  /\ ulink'[c].oq # <<>>
                  /\ ulink'[c].oq[1].timeouts = ulink[c].oq[1].timeouts + 1]_vars

(* C32: the close handler of a TCP connection is called before close() of its
   descriptor, so the handler sees an open descriptor in link->fd *)
C32_HandlerSeesOpenFd ==
    \A c \in Conns : obs.chandler[c] > 0 => c \notin obs.fdClosed

(* C33: once accept() has failed, the listening descriptor is not polled again
   and no connection is added; every connection that is left is polled for
   input unless at eof and for output while its queue is filled, and the loop
   goes on only while a connection is left *)
C33_AcceptFailureKeepsLinks ==
    /\ [](obs.acceptFailed /\ mpx.pc = "poll" =>
             /\ \A i \in 1 .. Len(mpx.pollfds) : mpx.pollfds[i].link # 0
             /\ mpx.links # <<>>
             /\ \A c \in Conns :
                   conn[c].alive = "linked" =>
                      \E i \in 1 .. Len(mpx.pollfds) :
                          /\ mpx.pollfds[i].link = c
                          /\ (POLLIN \in mpx.pollfds[i].events) = ~conn[c].eof
                          /\ (POLLOUT \in mpx.pollfds[i].events) = (conn[c].oq # <<>>))
    /\ [][obs.acceptFailed =>
             /\ obs'.naccepts = obs.naccepts
             /\ \A c \in Conns : conn[c].alive = "unborn" => conn'[c].alive = "unborn"]_vars

(* after the failure of accept() a later poll reports input for a connection
   and room for output of a connection *)
C33_Witness ==
    /\ obs.acceptFailed /\ mpx.pc = "dispatch"
    /\ \A i \in 1 .. Len(mpx.pollfds) : mpx.pollfds[i].link # 0
    /\ \E i \in 1 .. Len(mpx.pollfds) : POLLIN \in mpx.pollfds[i].revents
    /\ \E i \in 1 .. Len(mpx.pollfds) : POLLOUT \in mpx.pollfds[i].revents

(* the records met when the list is walked from c along the next pointers, at
   most n of them *)
RECURSIVE ListFrom(_, _)
ListFrom(c, n) == IF c = 0 \/ n = 0 THEN <<>> ELSE <<c>> \o ListFrom(conn[c].next, n - 1)

Reachable == ListFrom(mpx.head, MaxConns + 1)

(* C34: while the TCP multiplexor polls or dispatches, a connection record is
   live exactly if it is reachable from the head of the list, count is the
   number of the reachable records, prev and next agree with each other and
   with head and tail, and every record of a poll entry that has not been
   dispatched yet is live *)
C34_ListHoldsLiveLinks ==
    mpx.pc \in {"poll", "dispatch"} =>
        /\ Reachable = mpx.links
        /\ \A c \in Conns :
              conn[c].alive = "linked" <=> \E i \in 1 .. Len(Reachable) : Reachable[i] = c
        /\ \A i, j \in 1 .. Len(Reachable) : Reachable[i] = Reachable[j] => i = j
        /\ mpx.count = Len(Reachable)
        /\ (mpx.head = 0) = (mpx.tail = 0)
        /\ mpx.head # 0 => conn[mpx.head].prev = 0
        /\ \A i \in 1 .. Len(Reachable) :
              LET c == Reachable[i]
              IN  IF conn[c].next = 0 THEN mpx.tail = c
                  ELSE conn[conn[c].next].prev = c
        /\ \A i \in 1 .. Len(mpx.pollfds) :
              (/\ mpx.pollfds[i].link # 0
               /\ \/ mpx.pc = "poll"
                  \/ i > mpx.index
                  \/ i = mpx.index /\ POLLIN \in mpx.pollfds[i].revents) =>
                  conn[mpx.pollfds[i].link].alive = "linked"

(* the first connection has been removed from the list while the second is
   still in it and waits for its turn in the poll result *)
C34_Witness ==
    /\ mpx.pc = "dispatch"
    /\ conn[1].alive = "freed" /\ conn[2].alive = "linked"
    /\ mpx.head = 2 /\ mpx.tail = 2
    /\ \E i \in 1 .. Len(mpx.pollfds) :
          i > mpx.index /\ mpx.pollfds[i].link = 2 /\ mpx.pollfds[i].revents # {}

(* C35: removing a UDP link never closes the socket of the service, also when
   the link is not initialized yet because its first read failed or
   close_udp_link was called for it *)
C35_ServiceSocketStaysOpen == uobs.socketcloses = 0

(* C36: when setup_polls gives a link up because the attempts of its first
   packet have reached max_retries, the timeouts of that packet equal its
   attempts: every transmission has been followed by a timeout of poll *)
C36_GivenUpAfterTimeouts ==
    \A c \in uobs.expired : c \notin uobs.unwaited

(* C37: every iteration of the match loop of the session input handler moves
   the offset of the sliding buffer forward, also when the framing regex
   matches an empty range, so the handler returns after finitely many calls
   of the request handler *)
C37_LoopAdvances ==
    [][Len(scan'.calls) > Len(scan.calls) /\ scan'.pc = "loop" =>
          scan'.offset > scan.offset]_vars

(* C38: once sd_shutdown has returned, no step of any participant changes
   filled, read_index, write_index or the ring bytes of a mailbox, nor the
   sync_count of the barrier *)
C38_FrozenAfterShutdown ==
    [][ShutdownDone =>
          /\ header'.sync_count = header.sync_count
          /\ \A r \in DOMAIN buffer :
                /\ buffer'[r].filled = buffer[r].filled
                /\ buffer'[r].read_index = buffer[r].read_index
                /\ buffer'[r].write_index = buffer[r].write_index
                /\ buffer'[r].ring = buffer[r].ring]_vars

(* the shutdown has returned with bytes left in a mailbox; a call that it
   found blocked has returned false, and so has a later sd_write of that
   participant *)
C38_Witness ==
    /\ ShutdownDone
    /\ \E r \in DOMAIN buffer : buffer[r].filled > 0
    /\ \E p \in Callers :
          /\ atShutdown[p] = "false"
          /\ pc[p] = "idle"
          /\ Len(ret[p]) >= 2
          /\ ret[p][Len(ret[p])] = [op |-> "write", val |-> FALSE]

(* write_to_socket is the next call of the loop for the current entry *)
UdpWritePending ==
    /\ udp.pc = "dispatch"
    /\ UdpEntry.link # 0
    /\ POLLIN \notin UdpEntry.revents
    /\ POLLOUT \in UdpEntry.revents

(* C39: whenever the UDP event loop is about to call write_to_socket, the link
   is live and its output queue is not empty, also after the acknowledgement
   discard and the input handler of the same iteration *)
C39_WriteHasPacket ==
    UdpWritePending =>
        /\ ulink[UdpEntry.link].alive = "linked"
        /\ ulink[UdpEntry.link].oq # <<>>

(* write_to_socket is about to be called for a link whose datagram has gone
   to the input handler in the same iteration *)
C39_Witness ==
    /\ UdpWritePending
    /\ POLLIN \in UdpEntry.handled
    /\ ulink[UdpEntry.link].oq # <<>>

(* C40: when init_buffer fails for the buffer i, the setup has called
   free_buffer exactly once for each of the buffers 0 .. i-1 and for no other
   buffer, has released the mutex and condition variable of the header, and
   returns null *)
C40_RollbackFreesInitialised ==
    (dom.pc = "returned" /\ dom.failed >= 0) =>
        /\ \A b \in 0 .. (dom.nofprocesses - 1) :
              dom.frees[b] = (IF b < dom.failed THEN 1 ELSE 0)
        /\ dom.header = "freed"
        /\ dom.result = "null"

=============================================================================
